---- MODULE Spec2Model ----
(***************************************************************************)
(* Podcast summarizer backend: the task record store (src/task_manager.py), *)
(* the pipeline worker and the polling endpoints (src/app.py), and the     *)
(* per-owner store (src/models/managers/task_manager.py).                  *)
(*                                                                         *)
(* Python's None is the empty sequence <<>> and a present value v is <<v>>, *)
(* so that optional fields and keyword arguments of any type compare.      *)
(* Attribute reads and writes are the atomic steps: the interpreter may    *)
(* switch threads between any two of them.                                 *)
(***************************************************************************)
EXTENDS Integers, Sequences, FiniteSets, TLC

\* ------------------------------------------------------------------ bounds

\* Number of submissions (each gets a fresh uuid4 task id).
MaxTasks == 2

\* Number of clock ticks (one tick is one hour).
MaxTime == 2

\* Number of client threads calling the per-owner store.
NThreads == 2

\* Number of calls the client threads make on the per-owner store.
MaxCalls == 4

\* Longest text, in characters, given to the chunk packer.
MaxLen == 5

\* Largest token budget (max_tokens, minimum_chunk_size).
MaxTokens == 3

\* The detail levels are 0, 1/DetailSteps, ..., 1.
DetailSteps == 4

\* Most entries in a feed.
MaxEntries == 2

\* Longest entry title, in characters.
MaxTitle == 2

\* Longest episode name, in characters, in a submission.
MaxName == 4

\* Longest text, in characters, the transcription service returns.
MaxTranscript == 1

\* ------------------------------------------------------- program constants

\* max_attempts of transcribe_from_url.
MaxAttempts == 120


SecondsPerHour == 3600

\* ------------------------------------------------------------------ values

None == <<>>

Some(v) == <<v>>

TaskIds == 1..MaxTasks

\* TaskStatus members (the enum) and their .value strings.
TaskStatus == {"FAILED", "PENDING", "COMPLETED", "DOWNLOADING", "SUMMARIZING", "TRANSCRIBING"}

StatusValue(s) ==
  CASE s = "FAILED" -> "failed"
    [] s = "PENDING" -> "pending"
    [] s = "COMPLETED" -> "completed"
    [] s = "DOWNLOADING" -> "downloading"
    [] s = "SUMMARIZING" -> "summarizing"
    [] s = "TRANSCRIBING" -> "transcribing"

\* Mutant of NewTaskInfo: create_task forgets the message argument, which
\* then keeps the dataclass default.
NewTaskInfoDefaultMessage(id, t) ==
  [task_id |-> id, status |-> "PENDING", progress |-> 0, message |-> "",
   created_at |-> t, updated_at |-> t, result |-> None, error |-> None]

\* TaskInfo(task_id, status=PENDING, message=...) followed by __post_init__:
\* progress 0.0, result and error None, both timestamps from the clock.
NewTaskInfo(id, t) ==
  [task_id |-> id, status |-> "PENDING", progress |-> 0, message |-> "Task created",
   created_at |-> t, updated_at |-> t, result |-> None, error |-> None]

\* The order in which TaskInfo.update tests and assigns its arguments.
UpdateOrder == <<"status", "progress", "message", "result", "error", "updated_at">>

\* Keyword arguments of update_task: every argument defaults to None.
Kwargs(status, progress, message, result, error) ==
  [status |-> status, progress |-> progress, message |-> message,
   result |-> result, error |-> error]

\* `if x is not None`
\* Mutant of FieldPassed: "if value:" instead of "if value is not None".
FieldPassedTruthy(kw, i) ==
  /\ i <= 5
  /\ kw[UpdateOrder[i]] # None
  /\ UpdateOrder[i] = "progress" => kw.progress[1] # 0
  /\ UpdateOrder[i] = "message" => kw.message[1] # ""

FieldPassed(kw, i) == i <= 5 /\ kw[UpdateOrder[i]] # None

\* The first assignment TaskInfo.update performs at or after position i;
\* position 6 (updated_at) is always performed.
NextAssigned(kw, i) ==
  IF \E j \in i..5 : FieldPassed(kw, j)
  THEN CHOOSE j \in i..5 : FieldPassed(kw, j) /\ \A k \in i..(j - 1) : ~FieldPassed(kw, k)
  ELSE 6

\* One assignment of TaskInfo.update: self.<field> = <argument>, or
\* self.updated_at = time.time().
AssignField(rec, kw, i, t) ==
  LET f == UpdateOrder[i] IN
  IF i = 6 THEN [rec EXCEPT !.updated_at = t]
  ELSE IF f \in {"result", "error"} THEN [rec EXCEPT ![f] = kw[f]]
  ELSE [rec EXCEPT ![f] = kw[f][1]]

\* Thread identities, as holders of the store lock.
Free == <<"free", 0>>

Worker(id) == <<"worker", id>>

\* Exceptions the collaborators raise, and str(e).
DownloadError == [cls |-> "ValueError", msg |-> "Episode not found in the RSS feed"]

TranscribeError == [cls |-> "Exception", msg |-> "Transcription failed"]

SummarizeError == [cls |-> "RuntimeError", msg |-> "Failed to retrieve a summary from OpenAI API."]

Str(e) == e.msg

\* What the downloader and the summarizer return for a job.
Metadata(id) ==
  [title |-> "title", thumbnail |-> "thumbnail", channel |-> "channel",
   duration_string |-> "1:00", release_date |-> "2024-01-01", video_id |-> id]

Summary(id) == "summary"

\* The result dict process_podcast builds.
BuildResult(metadata, summary) ==
  [title |-> metadata.title, summary |-> summary, thumbnail |-> metadata.thumbnail,
   channel |-> metadata.channel, duration_string |-> metadata.duration_string,
   release_date |-> metadata.release_date]

VARIABLES
  now,      \* time.time(), in seconds
  lock,     \* holder of TaskManager.lock, or Free
  tasks,    \* TaskManager.tasks: task id -> reference of its TaskInfo
  heap,     \* the TaskInfo objects, by reference (a deleted entry's object lives on)
  wpc,      \* per task: position of its process_podcast thread
  upos,     \* per task: position of its thread inside TaskInfo.update (0: outside)
  wexc,     \* per task: the exception its thread caught, if any
  cpc,      \* cleanup_old_tasks: "idle", "sampled" (clock read) or "done" (returning)
  ccur,     \* cleanup_old_tasks: current_time
  ccut,     \* cleanup_old_tasks: max_age_seconds
  ppc,      \* the polling request: position in get_task_status / get_task_result
  pid,      \* the polling request: its task_id
  pref,     \* the polling request: the TaskInfo reference get_task returned
  ppos,     \* the polling request: position of asdict in the field list
  pbuf,     \* the polling request: the dict asdict is building
  pout,     \* the polling request: the response it is about to send
  upre,     \* history: the heap when the running update_task took the lock
  touched,  \* history: per task, whether an update_task has found its record
  pcands,   \* history: the record's values at get_task and at each update since
  psnap,    \* history: the record's value when get_task returned it
  cexp,     \* history: the ids the returning cleanup_old_tasks deleted
  ckept,    \* history: the ids it found younger than the threshold
  olock,    \* per-owner store: holder and depth of TaskManager.lock (an RLock)
  octx,     \* per-owner store: user_contexts, user id -> UserContext instance
  otasks,   \* per-owner store: tasks, user id -> task id -> TaskInfo reference
  oheap,    \* per-owner store: the TaskInfo objects, by reference
  tpc,      \* per client thread: position in the store call it is running
  tcall,    \* per client thread: the call and its arguments
  tupos,    \* per client thread: position inside TaskInfo.update (0: outside)
  tret,     \* per client thread: the value the call returns
  ncalls,   \* number of store calls started so far
  octor,    \* history: per user, the number of UserContext constructions
  opre,     \* history: oheap when the running update_task took the lock
  tref,     \* per client thread: the TaskInfo reference get_task_dict found
  tpos,     \* per client thread: position of asdict in the field list
  tbuf,     \* per client thread: the dict asdict is building
  kpc,      \* function calls: "idle", or "returned" when a call has returned
  kin,      \* function calls: the function called and its arguments
  kout,     \* function calls: the value it returned
  spc,      \* transcribe_from_url: "idle", "loop" (at the while test) or "returned"
  attempt,  \* transcribe_from_url: attempt
  sout,     \* transcribe_from_url: the text it returns or the exception it raises
  npolls,   \* history: the status requests sent for the job
  slast,    \* history: the outcome of the latest status request
  files,    \* the transcript files: content id -> the file's contents, if it exists
  xpc,      \* per transcribe call: position in SaladTranscriber.transcribe
  xcall,    \* per transcribe call: video_id and the kind of audio_path
  xtext,    \* per transcribe call: transcribed_text
  xout,     \* per transcribe call: the text it returns or the exception it raises
  xhad,     \* history: whether the transcript existed when the call started
  xprior,   \* history: the text of the first success for the id, if one came before the call
  xcontact, \* history: whether the call uploaded audio or asked the service
  first,    \* history: per content id, the text the first successful transcribe returned
  ysource,  \* YTDownloader.source_url (an attribute of the shared instance)
  yvid,     \* YTDownloader.video_id (an attribute of the shared instance)
  ypc,      \* per download_episode call: position
  yurl,     \* per download_episode call: the source_url argument
  ymp3,     \* per download_episode call: mp3_path
  yout      \* per download_episode call: what it returns or raises

storeVars == <<lock, tasks, heap>>

workerVars == <<wpc, upos, wexc, upre, touched>>

cleanupVars == <<cpc, ccur, ccut, cexp, ckept>>

pollVars == <<ppc, pid, pref, ppos, pbuf, pout, psnap>>

appVars == <<storeVars, workerVars, cleanupVars, pollVars, pcands>>

readVars == <<tref, tpos, tbuf>>

ownerVars == <<olock, octx, otasks, oheap, tpc, tcall, tupos, tret, ncalls, octor, opre, readVars>>

pollLoopVars == <<spc, attempt, sout, npolls, slast>>

transcribeVars == <<files, xpc, xcall, xtext, xout, xhad, xprior, xcontact, first>>

ytVars == <<ysource, yvid, ypc, yurl, ymp3, yout>>

collabVars == <<pollLoopVars, transcribeVars, ytVars>>

pureVars == <<kpc, kin, kout, collabVars>>

vars == <<now, appVars, ownerVars, pureVars>>

Threads == 1..NThreads

\* The jobs that call the transcriber at the same time.
Callers == 1..NThreads

\* The content ids (metadata["video_id"]) of the jobs.
ContentIds == {"v1", "v2"}

NoTranscribe == [video_id |-> "", audio |-> ""]

Users == {"u1", "u2"}

\* The task ids the client threads use (the same ids under every user).
OwnerTaskIds == {1}

NoKwargs == Kwargs(None, None, None, None, None)

\* A call of a client thread on the per-owner store.
Call(op, user, id, kw) == [op |-> op, user |-> user, id |-> id, kw |-> kw]

NoCall == Call("none", "", 0, NoKwargs)

\* No function call is running.
NoArgs == [fn |-> "none"]

NoResponse == [code |-> 0, task |-> None, result |-> None, error |-> None, status |-> None]

Init ==
  /\ now = 0
  /\ lock = Free
  /\ tasks = <<>>
  /\ heap = <<>>
  /\ wpc = [id \in TaskIds |-> "none"]
  /\ upos = [id \in TaskIds |-> 0]
  /\ wexc = [id \in TaskIds |-> None]
  /\ cpc = "idle"
  /\ ccur = 0
  /\ ccut = 0
  /\ ppc = "idle"
  /\ pid = 0
  /\ pref = None
  /\ ppos = 0
  /\ pbuf = None
  /\ pout = NoResponse
  /\ upre = <<>>
  /\ touched = [id \in TaskIds |-> FALSE]
  /\ pcands = {}
  /\ psnap = None
  /\ cexp = {}
  /\ ckept = {}
  /\ olock = [holder |-> 0, depth |-> 0]
  /\ octx = <<>>
  /\ otasks = <<>>
  /\ oheap = <<>>
  /\ tpc = [t \in Threads |-> "idle"]
  /\ tcall = [t \in Threads |-> NoCall]
  /\ tupos = [t \in Threads |-> 0]
  /\ tret = [t \in Threads |-> None]
  /\ ncalls = 0
  /\ octor = [u \in Users |-> 0]
  /\ opre = [t \in Threads |-> <<>>]
  /\ tref = [t \in Threads |-> None]
  /\ tpos = [t \in Threads |-> 0]
  /\ tbuf = [t \in Threads |-> None]
  /\ kpc = "idle"
  /\ kin = NoArgs
  /\ kout = None
  /\ spc = "idle"
  /\ attempt = 0
  /\ sout = None
  /\ npolls = 0
  /\ slast = "none"
  /\ files = [id \in ContentIds |-> None]
  /\ xpc = [c \in Callers |-> "idle"]
  /\ xcall = [c \in Callers |-> NoTranscribe]
  /\ xtext = [c \in Callers |-> None]
  /\ xout = [c \in Callers |-> None]
  /\ xhad = [c \in Callers |-> FALSE]
  /\ xprior = [c \in Callers |-> None]
  /\ xcontact = [c \in Callers |-> FALSE]
  /\ first = [id \in ContentIds |-> None]
  /\ ysource = None
  /\ yvid = None
  /\ ypc = [c \in Callers |-> "idle"]
  /\ yurl = [c \in Callers |-> None]
  /\ ymp3 = [c \in Callers |-> None]
  /\ yout = [c \in Callers |-> None]

\* ------------------------------------------------- the store (TaskManager)

\* TaskManager.create_task: under the lock, a new TaskInfo replaces whatever
\* the id mapped to.
CreateTask(id) ==
  /\ lock = Free
  /\ heap' = Append(heap, NewTaskInfo(id, now))
  /\ tasks' = (id :> (Len(heap) + 1)) @@ tasks
  /\ lock' = Free

\* TaskManager.get_task: under the lock, self.tasks.get(task_id): the
\* TaskInfo itself, or None.
GetTask(id) == IF id \in DOMAIN tasks THEN Some(tasks[id]) ELSE None

\* Mutant of ExpiredTasks: the age is taken from updated_at.
ExpiredTasksByUpdate(current_time, max_age_seconds) ==
  {id \in DOMAIN tasks : current_time - heap[tasks[id]].updated_at > max_age_seconds}

\* The tasks cleanup_old_tasks deletes.
ExpiredTasks(current_time, max_age_seconds) ==
  {id \in DOMAIN tasks : current_time - heap[tasks[id]].created_at > max_age_seconds}

\* ------------------------------------------- the worker (process_podcast)

UpdateStages ==
  {"upd_downloading", "upd_transcribing", "upd_summarizing", "upd_completed", "upd_failed"}

CallStages == {"download", "transcribe", "summarize"}

\* Mutant of UpdateArgs: the transcribing and summarizing updates carry each
\* other's status.
UpdateArgsSwapped(id) ==
  CASE wpc[id] = "upd_downloading" ->
         Kwargs(Some("DOWNLOADING"), Some(10), Some("Processing audio source..."), None, None)
    [] wpc[id] = "upd_transcribing" ->
         Kwargs(Some("SUMMARIZING"), Some(30), Some("Transcribing audio to text..."), None, None)
    [] wpc[id] = "upd_summarizing" ->
         Kwargs(Some("TRANSCRIBING"), Some(70), Some("Generating AI summary..."), None, None)
    [] wpc[id] = "upd_completed" ->
         Kwargs(Some("COMPLETED"), Some(100), Some("Summary completed successfully!"),
                Some(BuildResult(Metadata(id), Summary(id))), None)
    [] wpc[id] = "upd_failed" ->
         Kwargs(Some("FAILED"), Some(0), Some("Processing failed"), None, Some(Str(wexc[id][1])))

\* Mutant of UpdateArgs: the except clause does not reset the progress.
UpdateArgsKeepProgress(id) ==
  CASE wpc[id] = "upd_downloading" ->
         Kwargs(Some("DOWNLOADING"), Some(10), Some("Processing audio source..."), None, None)
    [] wpc[id] = "upd_transcribing" ->
         Kwargs(Some("TRANSCRIBING"), Some(30), Some("Transcribing audio to text..."), None, None)
    [] wpc[id] = "upd_summarizing" ->
         Kwargs(Some("SUMMARIZING"), Some(70), Some("Generating AI summary..."), None, None)
    [] wpc[id] = "upd_completed" ->
         Kwargs(Some("COMPLETED"), Some(100), Some("Summary completed successfully!"),
                Some(BuildResult(Metadata(id), Summary(id))), None)
    [] wpc[id] = "upd_failed" ->
         Kwargs(Some("FAILED"), None, Some("Processing failed"), None, Some(Str(wexc[id][1])))

\* Mutant of UpdateArgs: the first update carries no status.
UpdateArgsSilentStart(id) ==
  CASE wpc[id] = "upd_downloading" ->
         Kwargs(None, Some(10), Some("Processing audio source..."), None, None)
    [] wpc[id] = "upd_transcribing" ->
         Kwargs(Some("TRANSCRIBING"), Some(30), Some("Transcribing audio to text..."), None, None)
    [] wpc[id] = "upd_summarizing" ->
         Kwargs(Some("SUMMARIZING"), Some(70), Some("Generating AI summary..."), None, None)
    [] wpc[id] = "upd_completed" ->
         Kwargs(Some("COMPLETED"), Some(100), Some("Summary completed successfully!"),
                Some(BuildResult(Metadata(id), Summary(id))), None)
    [] wpc[id] = "upd_failed" ->
         Kwargs(Some("FAILED"), Some(0), Some("Processing failed"), None, Some(Str(wexc[id][1])))

\* The keyword arguments of the update_task call at each position.
UpdateArgs(id) ==
  CASE wpc[id] = "upd_downloading" ->
         Kwargs(Some("DOWNLOADING"), Some(10), Some("Processing audio source..."), None, None)
    [] wpc[id] = "upd_transcribing" ->
         Kwargs(Some("TRANSCRIBING"), Some(30), Some("Transcribing audio to text..."), None, None)
    [] wpc[id] = "upd_summarizing" ->
         Kwargs(Some("SUMMARIZING"), Some(70), Some("Generating AI summary..."), None, None)
    [] wpc[id] = "upd_completed" ->
         Kwargs(Some("COMPLETED"), Some(100), Some("Summary completed successfully!"),
                Some(BuildResult(Metadata(id), Summary(id))), None)
    [] wpc[id] = "upd_failed" ->
         Kwargs(Some("FAILED"), Some(0), Some("Processing failed"), None, Some(Str(wexc[id][1])))

\* Mutant of AfterStage: the summarizing step is retried after summarize
\* returns.
AfterStageRetry(stage) ==
  CASE stage = "upd_downloading" -> "download"
    [] stage = "download" -> "upd_transcribing"
    [] stage = "upd_transcribing" -> "transcribe"
    [] stage = "transcribe" -> "upd_summarizing"
    [] stage = "upd_summarizing" -> "summarize"
    [] stage = "summarize" -> "upd_summarizing"
    [] stage = "upd_completed" -> "done"
    [] stage = "upd_failed" -> "done"

\* Mutant of AfterStage: the downloader is invoked again when the
\* transcriber returns.
AfterStageRedownload(stage) ==
  CASE stage = "upd_downloading" -> "download"
    [] stage = "download" -> "upd_transcribing"
    [] stage = "upd_transcribing" -> "transcribe"
    [] stage = "transcribe" -> "download"
    [] stage = "upd_summarizing" -> "summarize"
    [] stage = "summarize" -> "upd_completed"
    [] stage = "upd_completed" -> "done"
    [] stage = "upd_failed" -> "done"

\* Where process_podcast goes when a call returns.
AfterStage(stage) ==
  CASE stage = "upd_downloading" -> "download"
    [] stage = "download" -> "upd_transcribing"
    [] stage = "upd_transcribing" -> "transcribe"
    [] stage = "transcribe" -> "upd_summarizing"
    [] stage = "upd_summarizing" -> "summarize"
    [] stage = "summarize" -> "upd_completed"
    [] stage = "upd_completed" -> "done"
    [] stage = "upd_failed" -> "done"

\* The exception a collaborator call raises.
StageError(stage) ==
  CASE stage = "download" -> DownloadError
    [] stage = "transcribe" -> TranscribeError
    [] stage = "summarize" -> SummarizeError

\* Mutant of Uuid4: the endpoint hands out the same id again.
Uuid4Repeats == IF heap = <<>> THEN Len(heap) + 1 ELSE Len(heap)

\* str(uuid.uuid4()): an id no earlier submission got (the n-th call gives n).
Uuid4 == Len(heap) + 1

\* summarize_endpoint: a fresh uuid4 id, create_task, and the worker thread
\* started on process_podcast.
Submit ==
  /\ Len(heap) < MaxTasks
  /\ LET id == Uuid4 IN
       /\ CreateTask(id)
       /\ wpc' = [wpc EXCEPT ![id] = "upd_downloading"]
  /\ UNCHANGED <<now, upos, wexc, upre, touched, cleanupVars, pollVars, pcands, ownerVars, pureVars>>

\* update_task takes the lock and finds the record: TaskInfo.update starts.
UpdateTaskEnter(id) ==
  /\ wpc[id] \in UpdateStages
  /\ upos[id] = 0
  /\ lock = Free
  /\ id \in DOMAIN tasks
  /\ lock' = Worker(id)
  /\ upos' = [upos EXCEPT ![id] = NextAssigned(UpdateArgs(id), 1)]
  /\ upre' = heap
  /\ touched' = [touched EXCEPT ![id] = TRUE]
  /\ UNCHANGED <<now, tasks, heap, wpc, wexc, cleanupVars, pollVars, pcands, ownerVars, pureVars>>

\* Mutant of UpdateTaskAbsent: update_task inserts a record for an id it
\* does not find.
UpdateTaskUpsert(id) ==
  /\ wpc[id] \in UpdateStages
  /\ upos[id] = 0
  /\ lock = Free
  /\ id \notin DOMAIN tasks
  /\ heap' = Append(heap, NewTaskInfo(id, now))
  /\ tasks' = (id :> (Len(heap) + 1)) @@ tasks
  /\ wpc' = [wpc EXCEPT ![id] = AfterStage(wpc[id])]
  /\ UNCHANGED <<now, lock, upos, wexc, upre, touched, cleanupVars, pollVars, pcands, ownerVars, pureVars>>

\* update_task takes the lock and finds no record: it returns None.
UpdateTaskAbsent(id) ==
  /\ wpc[id] \in UpdateStages
  /\ upos[id] = 0
  /\ lock = Free
  /\ id \notin DOMAIN tasks
  /\ wpc' = [wpc EXCEPT ![id] = AfterStage(wpc[id])]
  /\ UNCHANGED <<now, storeVars, upos, wexc, upre, touched, cleanupVars, pollVars, pcands, ownerVars, pureVars>>

\* One assignment of TaskInfo.update, under the lock.
UpdateTaskAssign(id) ==
  /\ lock = Worker(id)
  /\ upos[id] \in 1..5
  /\ heap' = [heap EXCEPT ![tasks[id]] = AssignField(@, UpdateArgs(id), upos[id], now)]
  /\ upos' = [upos EXCEPT ![id] = NextAssigned(UpdateArgs(id), upos[id] + 1)]
  /\ UNCHANGED <<now, lock, tasks, wpc, wexc, upre, touched, cleanupVars, pollVars, pcands, ownerVars, pureVars>>

\* Mutant of UpdateTaskLeave: update_task returns without releasing the
\* lock.
UpdateTaskLeaveLocked(id) ==
  /\ lock = Worker(id)
  /\ upos[id] = 6
  /\ heap' = [heap EXCEPT ![tasks[id]] = AssignField(@, UpdateArgs(id), 6, now)]
  /\ upos' = [upos EXCEPT ![id] = 0]
  /\ wpc' = [wpc EXCEPT ![id] = AfterStage(wpc[id])]
  /\ pcands' = IF ppc \in {"asdict", "value"} /\ pref = Some(tasks[id])
               THEN pcands \cup {heap'[tasks[id]]}
               ELSE pcands
  /\ upre' = <<>>
  /\ UNCHANGED <<now, lock, tasks, wexc, touched, cleanupVars, pollVars, ownerVars, pureVars>>

\* self.updated_at = time.time(); update_task returns and releases the lock.
UpdateTaskLeave(id) ==
  /\ lock = Worker(id)
  /\ upos[id] = 6
  /\ heap' = [heap EXCEPT ![tasks[id]] = AssignField(@, UpdateArgs(id), 6, now)]
  /\ lock' = Free
  /\ upos' = [upos EXCEPT ![id] = 0]
  /\ wpc' = [wpc EXCEPT ![id] = AfterStage(wpc[id])]
  /\ pcands' = IF ppc \in {"asdict", "value"} /\ pref = Some(tasks[id])
               THEN pcands \cup {heap'[tasks[id]]}
               ELSE pcands
  /\ upre' = <<>>
  /\ UNCHANGED <<now, tasks, wexc, touched, cleanupVars, pollVars, ownerVars, pureVars>>

\* A collaborator call (download_episode, transcribe, summarize) returns.
StageReturns(id) ==
  /\ wpc[id] \in CallStages
  /\ wpc' = [wpc EXCEPT ![id] = AfterStage(wpc[id])]
  /\ UNCHANGED <<now, storeVars, upos, wexc, upre, touched, cleanupVars, pollVars, pcands, ownerVars, pureVars>>

\* A collaborator call raises: control goes to the except clause.
StageRaises(id) ==
  /\ wpc[id] \in CallStages
  /\ wexc' = [wexc EXCEPT ![id] = Some(StageError(wpc[id]))]
  /\ wpc' = [wpc EXCEPT ![id] = "upd_failed"]
  /\ UNCHANGED <<now, storeVars, upos, upre, touched, cleanupVars, pollVars, pcands, ownerVars, pureVars>>

\* ------------------------------------------------- the polling endpoints

\* dataclasses.asdict copies the fields in declaration order; task_id and
\* created_at never change, so each is read with the field that follows it.
AsdictOrder ==
  <<{"task_id", "status"}, {"progress"}, {"message"}, {"created_at", "updated_at"},
    {"result"}, {"error"}>>

\* The fields of TaskInfo object r named in fs, as a dict.
ReadFields(r, fs) == [f \in fs |-> heap[r][f]]

Response(code, task, result, error, status) ==
  [code |-> code, task |-> task, result |-> result, error |-> error, status |-> status]

\* get_task_status or get_task_result: get_task finds no record, 404.
PollNotFound(id) ==
  /\ ppc = "idle"
  /\ lock = Free
  /\ GetTask(id) = None
  /\ pout' = Response(404, None, None, None, None)
  /\ pid' = id
  /\ ppc' = "respond"
  /\ UNCHANGED <<now, storeVars, workerVars, cleanupVars, pref, ppos, pbuf, psnap, pcands, ownerVars, pureVars>>

\* Mutant of PollStatus: get_task_dict takes the lock around its body, and
\* the get_task it calls then waits for the same lock.
PollStatusLocked(id) ==
  /\ ppc = "idle"
  /\ lock = Free
  /\ GetTask(id) # None
  /\ pid' = id
  /\ lock' = <<"client", 0>>
  /\ ppc' = "get_task"
  /\ UNCHANGED <<now, tasks, heap, workerVars, cleanupVars, pref, ppos, pbuf, pout, psnap, pcands, ownerVars, pureVars>>

\* get_task_status: get_task_dict calls get_task, which returns the TaskInfo
\* and releases the lock; asdict starts.
PollStatus(id) ==
  /\ ppc = "idle"
  /\ lock = Free
  /\ GetTask(id) # None
  /\ pid' = id
  /\ pref' = GetTask(id)
  /\ ppc' = "asdict"
  /\ ppos' = 1
  /\ pbuf' = Some(<<>>)
  /\ pcands' = {heap[GetTask(id)[1]]}
  /\ UNCHANGED <<now, storeVars, workerVars, cleanupVars, pout, psnap, ownerVars, pureVars>>

\* asdict copies the next field of the TaskInfo, outside the lock.
AsdictField ==
  /\ ppc = "asdict"
  /\ pbuf' = Some(ReadFields(pref[1], AsdictOrder[ppos]) @@ pbuf[1])
  /\ IF ppos < Len(AsdictOrder)
     THEN ppos' = ppos + 1 /\ ppc' = "asdict"
     ELSE ppos' = 0 /\ ppc' = "value"
  /\ UNCHANGED <<now, storeVars, workerVars, cleanupVars, pid, pref, pout, psnap, pcands, ownerVars, pureVars>>

\* task_dict["status"] = task.status.value; the dict is the response (200).
StatusValueRead ==
  /\ ppc = "value"
  /\ LET d == [pbuf[1] EXCEPT !.status = StatusValue(heap[pref[1]].status)] IN
       pout' = Response(200, Some(d), None, None, None)
  /\ ppc' = "respond"
  /\ pbuf' = None
  /\ UNCHANGED <<now, storeVars, workerVars, cleanupVars, pid, pref, ppos, psnap, pcands, ownerVars, pureVars>>

\* get_task_result: get_task returns the TaskInfo and releases the lock.
PollResult(id) ==
  /\ ppc = "idle"
  /\ lock = Free
  /\ GetTask(id) # None
  /\ pid' = id
  /\ pref' = GetTask(id)
  /\ ppc' = "r_completed"
  /\ psnap' = Some(heap[GetTask(id)[1]])
  /\ UNCHANGED <<now, storeVars, workerVars, cleanupVars, ppos, pbuf, pout, pcands, ownerVars, pureVars>>

\* if task_info.status == TaskStatus.COMPLETED
ResultTestCompleted ==
  /\ ppc = "r_completed"
  /\ ppc' = IF heap[pref[1]].status = "COMPLETED" THEN "r_result" ELSE "r_failed"
  /\ UNCHANGED <<now, storeVars, workerVars, cleanupVars, pid, pref, ppos, pbuf, pout, psnap, pcands, ownerVars, pureVars>>

\* 200 with task_info.result
ResultReadResult ==
  /\ ppc = "r_result"
  /\ pout' = Response(200, None, Some(heap[pref[1]].result), None, None)
  /\ ppc' = "respond"
  /\ UNCHANGED <<now, storeVars, workerVars, cleanupVars, pid, pref, ppos, pbuf, psnap, pcands, ownerVars, pureVars>>

\* elif task_info.status == TaskStatus.FAILED
ResultTestFailed ==
  /\ ppc = "r_failed"
  /\ ppc' = IF heap[pref[1]].status = "FAILED" THEN "r_error" ELSE "r_value"
  /\ UNCHANGED <<now, storeVars, workerVars, cleanupVars, pid, pref, ppos, pbuf, pout, psnap, pcands, ownerVars, pureVars>>

\* 500 with task_info.error or "Task failed"
ResultReadError ==
  /\ ppc = "r_error"
  /\ LET e == heap[pref[1]].error IN
       pout' = Response(500, None, None,
                        IF e # None /\ e[1] # "" THEN e ELSE Some("Task failed"), None)
  /\ ppc' = "respond"
  /\ UNCHANGED <<now, storeVars, workerVars, cleanupVars, pid, pref, ppos, pbuf, psnap, pcands, ownerVars, pureVars>>

\* 202 with task_info.status.value
ResultReadValue ==
  /\ ppc = "r_value"
  /\ pout' = Response(202, None, None, None, Some(StatusValue(heap[pref[1]].status)))
  /\ ppc' = "respond"
  /\ UNCHANGED <<now, storeVars, workerVars, cleanupVars, pid, pref, ppos, pbuf, psnap, pcands, ownerVars, pureVars>>

\* The response is sent and the request ends.
PollDone ==
  /\ ppc = "respond"
  /\ ppc' = "idle"
  /\ pid' = 0
  /\ pref' = None
  /\ ppos' = 0
  /\ pbuf' = None
  /\ pout' = NoResponse
  /\ psnap' = None
  /\ pcands' = {}
  /\ UNCHANGED <<now, storeVars, workerVars, cleanupVars, ownerVars, pureVars>>

\* ------------------------------------------------------ cleanup_old_tasks

\* The max_age_hours values cleanup_old_tasks is called with.
MaxAgeHours == {0, 1}

\* current_time = time.time(); max_age_seconds = max_age_hours * 3600
CleanupSample(h) ==
  /\ cpc = "idle"
  /\ cpc' = "sampled"
  /\ ccur' = now
  /\ ccut' = h * SecondsPerHour
  /\ UNCHANGED <<now, storeVars, workerVars, pollVars, pcands, cexp, ckept, ownerVars, pureVars>>

\* Under the lock: the expired ids are collected, then deleted.
CleanupRun ==
  /\ cpc = "sampled"
  /\ lock = Free
  /\ tasks' = [id \in DOMAIN tasks \ ExpiredTasks(ccur, ccut) |-> tasks[id]]
  /\ cpc' = "done"
  /\ cexp' = ExpiredTasks(ccur, ccut)
  /\ ckept' = {id \in DOMAIN tasks : ccur - heap[tasks[id]].created_at < ccut}
  /\ UNCHANGED <<now, lock, heap, ccur, ccut, workerVars, pollVars, pcands, ownerVars, pureVars>>

\* cleanup_old_tasks returns.
CleanupReturn ==
  /\ cpc = "done"
  /\ cpc' = "idle"
  /\ ccur' = 0
  /\ ccut' = 0
  /\ cexp' = {}
  /\ ckept' = {}
  /\ UNCHANGED <<now, storeVars, workerVars, pollVars, pcands, ownerVars, pureVars>>

\* The clock advances by one hour.
Tick ==
  /\ now < MaxTime * SecondsPerHour
  /\ now' = now + SecondsPerHour
  /\ UNCHANGED <<appVars, ownerVars, pureVars>>

\* ------------------- the per-owner store (models/managers/task_manager.py)

\* TaskInfo(task_id, user_id, status=PENDING, message="Task created") and
\* __post_init__, which reads the clock once.
NewOwnerTaskInfo(id, user, t) ==
  [task_id |-> id, user_id |-> user, status |-> "PENDING", progress |-> 0,
   message |-> "Task created", created_at |-> t, updated_at |-> t,
   result |-> None, error |-> None]

\* The keyword arguments the client threads pass to update_task.
ClientKwargs ==
  {Kwargs(Some("DOWNLOADING"), Some(10), None, None, None),
   Kwargs(None, Some(0), Some("reset"), None, None),
   Kwargs(None, None, None, Some([summary |-> "summary"]), None),
   Kwargs(Some("FAILED"), None, None, None, Some("error"))}

\* The n-th UserContext instance constructed for a user.
UserContext(user, n) == <<"context", user, n>>

\* The ValueError of a collaborator's constructor, as seen by the caller.
Raised == <<"raise", "ValueError">>

\* Mutant of CanAcquire: init_user and the other methods run without the lock.
CanAcquireUnlocked(t) == TRUE

\* threading.RLock: free, or already held by the acquiring thread.
CanAcquire(t) == olock.holder \in {0, t}

Acquired(t) == [holder |-> t, depth |-> olock.depth + 1]

Released(t) ==
  IF olock.depth = 1 THEN [holder |-> 0, depth |-> 0]
  ELSE [holder |-> olock.holder, depth |-> olock.depth - 1]

\* Mutant of OwnerLookup: the records are found by task id alone, under
\* whichever user holds the id.
OwnerLookupAnyUser(user, id) ==
  IF \E u \in DOMAIN otasks : id \in DOMAIN otasks[u]
  THEN Some(otasks[CHOOSE u \in DOMAIN otasks : id \in DOMAIN otasks[u]][id])
  ELSE None

\* self.tasks.get(user_id, {}).get(task_id)
OwnerLookup(user, id) ==
  IF user \in DOMAIN otasks /\ id \in DOMAIN otasks[user]
  THEN Some(otasks[user][id])
  ELSE None

\* A client thread calls create_task(user, id): init_user comes first.
CallCreateTask(t, user, id) ==
  /\ tpc[t] = "idle"
  /\ ncalls < MaxCalls
  /\ ncalls' = ncalls + 1
  /\ tcall' = [tcall EXCEPT ![t] = Call("create_task", user, id, NoKwargs)]
  /\ tpc' = [tpc EXCEPT ![t] = "iu_acquire"]
  /\ UNCHANGED <<now, appVars, readVars, olock, octx, otasks, oheap, tupos, tret, octor, opre, pureVars>>

\* A client thread calls get_user_context(user): init_user comes first.
CallGetUserContext(t, user) ==
  /\ tpc[t] = "idle"
  /\ ncalls < MaxCalls
  /\ ncalls' = ncalls + 1
  /\ tcall' = [tcall EXCEPT ![t] = Call("get_user_context", user, 0, NoKwargs)]
  /\ tpc' = [tpc EXCEPT ![t] = "iu_acquire"]
  /\ UNCHANGED <<now, appVars, readVars, olock, octx, otasks, oheap, tupos, tret, octor, opre, pureVars>>

\* A client thread calls update_task(user, id, **kw).
CallUpdateTask(t, user, id, kw) ==
  /\ tpc[t] = "idle"
  /\ ncalls < MaxCalls
  /\ ncalls' = ncalls + 1
  /\ tcall' = [tcall EXCEPT ![t] = Call("update_task", user, id, kw)]
  /\ tpc' = [tpc EXCEPT ![t] = "ut_acquire"]
  /\ UNCHANGED <<now, appVars, readVars, olock, octx, otasks, oheap, tupos, tret, octor, opre, pureVars>>

\* init_user: with self.lock
InitUserAcquire(t) ==
  /\ tpc[t] = "iu_acquire"
  /\ CanAcquire(t)
  /\ olock' = Acquired(t)
  /\ tpc' = [tpc EXCEPT ![t] = "iu_check"]
  /\ UNCHANGED <<now, appVars, readVars, octx, otasks, oheap, tcall, tupos, tret, ncalls, octor, opre, pureVars>>

\* init_user: if user_id not in self.user_contexts
InitUserCheck(t) ==
  /\ tpc[t] = "iu_check"
  /\ tpc' = [tpc EXCEPT ![t] = IF tcall[t].user \in DOMAIN octx
                               THEN "iu_release" ELSE "iu_construct"]
  /\ UNCHANGED <<now, appVars, readVars, olock, octx, otasks, oheap, tcall, tupos, tret, ncalls, octor, opre, pureVars>>

\* init_user: a UserContext is constructed and stored, and the user's task
\* dict is set to {}.
InitUserConstruct(t) ==
  /\ tpc[t] = "iu_construct"
  /\ LET u == tcall[t].user IN
       /\ octor' = [octor EXCEPT ![u] = @ + 1]
       /\ octx' = (u :> UserContext(u, octor[u] + 1)) @@ octx
       /\ otasks' = (u :> <<>>) @@ otasks
  /\ tpc' = [tpc EXCEPT ![t] = "iu_release"]
  /\ UNCHANGED <<now, appVars, readVars, olock, oheap, tcall, tupos, tret, ncalls, opre, pureVars>>

\* init_user: a collaborator's constructor raises (a missing key in the
\* environment); the lock is released, nothing is stored and the exception
\* reaches the caller.
InitUserConstructRaises(t) ==
  /\ tpc[t] = "iu_construct"
  /\ olock' = Released(t)
  /\ tret' = [tret EXCEPT ![t] = Some(Raised)]
  /\ tpc' = [tpc EXCEPT ![t] = "ret"]
  /\ UNCHANGED <<now, appVars, readVars, octx, otasks, oheap, tcall, tupos, ncalls, octor, opre, pureVars>>

\* init_user releases the lock and returns to create_task or
\* get_user_context.
InitUserRelease(t) ==
  /\ tpc[t] = "iu_release"
  /\ olock' = Released(t)
  /\ tpc' = [tpc EXCEPT ![t] = IF tcall[t].op = "create_task" THEN "ct_insert" ELSE "guc_read"]
  /\ UNCHANGED <<now, appVars, readVars, octx, otasks, oheap, tcall, tupos, tret, ncalls, octor, opre, pureVars>>

\* create_task: under the lock, the new TaskInfo is stored under the user
\* and returned.
CreateTaskInsert(t) ==
  /\ tpc[t] = "ct_insert"
  /\ CanAcquire(t)
  /\ LET u == tcall[t].user
         ref == Len(oheap) + 1
     IN
       /\ oheap' = Append(oheap, NewOwnerTaskInfo(tcall[t].id, u, now))
       /\ otasks' = [otasks EXCEPT ![u] = (tcall[t].id :> ref) @@ @]
       /\ tret' = [tret EXCEPT ![t] = Some(<<"task", ref>>)]
  /\ tpc' = [tpc EXCEPT ![t] = "ret"]
  /\ UNCHANGED <<now, appVars, readVars, olock, octx, tcall, tupos, ncalls, octor, opre, pureVars>>

\* get_user_context: return self.user_contexts[user_id]
GetUserContextRead(t) ==
  /\ tpc[t] = "guc_read"
  /\ tret' = [tret EXCEPT ![t] = Some(octx[tcall[t].user])]
  /\ tpc' = [tpc EXCEPT ![t] = "ret"]
  /\ UNCHANGED <<now, appVars, readVars, olock, octx, otasks, oheap, tcall, tupos, ncalls, octor, opre, pureVars>>

\* update_task takes the lock and finds the record: TaskInfo.update starts.
OwnerUpdateEnter(t) ==
  /\ tpc[t] = "ut_acquire"
  /\ CanAcquire(t)
  /\ OwnerLookup(tcall[t].user, tcall[t].id) # None
  /\ olock' = Acquired(t)
  /\ tupos' = [tupos EXCEPT ![t] = NextAssigned(tcall[t].kw, 1)]
  /\ tpc' = [tpc EXCEPT ![t] = "ut_assign"]
  /\ opre' = [opre EXCEPT ![t] = oheap]
  /\ UNCHANGED <<now, appVars, readVars, octx, otasks, oheap, tcall, tret, ncalls, octor, pureVars>>

\* update_task takes the lock and finds no record: it returns None.
OwnerUpdateAbsent(t) ==
  /\ tpc[t] = "ut_acquire"
  /\ CanAcquire(t)
  /\ OwnerLookup(tcall[t].user, tcall[t].id) = None
  /\ tret' = [tret EXCEPT ![t] = None]
  /\ tpc' = [tpc EXCEPT ![t] = "ret"]
  /\ UNCHANGED <<now, appVars, readVars, olock, octx, otasks, oheap, tcall, tupos, ncalls, octor, opre, pureVars>>

\* One assignment of TaskInfo.update, under the lock.
OwnerUpdateAssign(t) ==
  /\ tpc[t] = "ut_assign"
  /\ tupos[t] \in 1..5
  /\ LET ref == OwnerLookup(tcall[t].user, tcall[t].id)[1] IN
       oheap' = [oheap EXCEPT ![ref] = AssignField(@, tcall[t].kw, tupos[t], now)]
  /\ tupos' = [tupos EXCEPT ![t] = NextAssigned(tcall[t].kw, tupos[t] + 1)]
  /\ UNCHANGED <<now, appVars, readVars, olock, octx, otasks, tpc, tcall, tret, ncalls, octor, opre, pureVars>>

\* self.updated_at = time.time(); update_task returns the TaskInfo and
\* releases the lock.
OwnerUpdateLeave(t) ==
  /\ tpc[t] = "ut_assign"
  /\ tupos[t] = 6
  /\ LET ref == OwnerLookup(tcall[t].user, tcall[t].id)[1] IN
       /\ oheap' = [oheap EXCEPT ![ref] = AssignField(@, tcall[t].kw, 6, now)]
       /\ tret' = [tret EXCEPT ![t] = Some(<<"task", ref>>)]
  /\ olock' = Released(t)
  /\ tupos' = [tupos EXCEPT ![t] = 0]
  /\ tpc' = [tpc EXCEPT ![t] = "ret"]
  /\ UNCHANGED <<now, appVars, readVars, octx, otasks, tcall, ncalls, octor, opre, pureVars>>

\* A client thread calls get_task_dict(user, id).
CallGetTaskDict(t, user, id) ==
  /\ tpc[t] = "idle"
  /\ ncalls < MaxCalls
  /\ ncalls' = ncalls + 1
  /\ tcall' = [tcall EXCEPT ![t] = Call("get_task_dict", user, id, NoKwargs)]
  /\ tpc' = [tpc EXCEPT ![t] = "gd_lookup"]
  /\ UNCHANGED <<now, appVars, readVars, olock, octx, otasks, oheap, tupos, tret, octor, opre, pureVars>>

\* dataclasses.asdict on the per-owner TaskInfo copies the fields in this
\* order; fields that never change are read together with the next one.
OwnerAsdictOrder ==
  <<{"task_id", "user_id", "status"}, {"progress"}, {"message"},
    {"created_at", "updated_at"}, {"result"}, {"error"}>>

\* get_task_dict, without the lock: self.tasks.get(user_id, {}).get(task_id);
\* None is returned when there is no record, otherwise asdict starts.
GetTaskDictLookup(t) ==
  /\ tpc[t] = "gd_lookup"
  /\ LET task == OwnerLookup(tcall[t].user, tcall[t].id) IN
       IF task = None
       THEN /\ tret' = [tret EXCEPT ![t] = None]
            /\ tpc' = [tpc EXCEPT ![t] = "ret"]
            /\ UNCHANGED readVars
       ELSE /\ tref' = [tref EXCEPT ![t] = task]
            /\ tpos' = [tpos EXCEPT ![t] = 1]
            /\ tbuf' = [tbuf EXCEPT ![t] = Some(<<>>)]
            /\ tpc' = [tpc EXCEPT ![t] = "gd_asdict"]
            /\ UNCHANGED tret
  /\ UNCHANGED <<now, appVars, olock, octx, otasks, oheap, tcall, tupos, ncalls, octor, opre, pureVars>>

\* asdict copies the next field of the TaskInfo.
GetTaskDictField(t) ==
  /\ tpc[t] = "gd_asdict"
  /\ tbuf' = [tbuf EXCEPT ![t] =
                Some([f \in OwnerAsdictOrder[tpos[t]] |-> oheap[tref[t][1]][f]] @@ tbuf[t][1])]
  /\ IF tpos[t] < Len(OwnerAsdictOrder)
     THEN tpos' = [tpos EXCEPT ![t] = @ + 1] /\ tpc' = tpc
     ELSE tpos' = [tpos EXCEPT ![t] = 0] /\ tpc' = [tpc EXCEPT ![t] = "gd_value"]
  /\ UNCHANGED <<now, appVars, tref, olock, octx, otasks, oheap, tcall, tupos, tret, ncalls, octor, opre, pureVars>>

\* d["status"] = task.status.value; return d
GetTaskDictValue(t) ==
  /\ tpc[t] = "gd_value"
  /\ tret' = [tret EXCEPT ![t] =
                Some(<<"dict", [tbuf[t][1] EXCEPT !.status = StatusValue(oheap[tref[t][1]].status)]>>)]
  /\ tbuf' = [tbuf EXCEPT ![t] = None]
  /\ tref' = [tref EXCEPT ![t] = None]
  /\ tpc' = [tpc EXCEPT ![t] = "ret"]
  /\ UNCHANGED <<now, appVars, tpos, olock, octx, otasks, oheap, tcall, tupos, ncalls, octor, opre, pureVars>>

\* The call returns to the client thread.
ThreadReturn(t) ==
  /\ tpc[t] = "ret"
  /\ tpc' = [tpc EXCEPT ![t] = "idle"]
  /\ tcall' = [tcall EXCEPT ![t] = NoCall]
  /\ tret' = [tret EXCEPT ![t] = None]
  /\ opre' = [opre EXCEPT ![t] = <<>>]
  /\ UNCHANGED <<now, appVars, readVars, olock, octx, otasks, oheap, tupos, ncalls, octor, pureVars>>

\* The per-owner store called by concurrent client threads.
NextOwner ==
  \/ \E t \in Threads, u \in Users, id \in OwnerTaskIds : CallCreateTask(t, u, id)
  \/ \E t \in Threads, u \in Users : CallGetUserContext(t, u)
  \/ \E t \in Threads, u \in Users, id \in OwnerTaskIds, kw \in ClientKwargs :
       CallUpdateTask(t, u, id, kw)
  \/ \E t \in Threads : InitUserAcquire(t)
  \/ \E t \in Threads : InitUserCheck(t)
  \/ \E t \in Threads : InitUserConstruct(t)
  \/ \E t \in Threads : InitUserConstructRaises(t)
  \/ \E t \in Threads : InitUserRelease(t)
  \/ \E t \in Threads : CreateTaskInsert(t)
  \/ \E t \in Threads : GetUserContextRead(t)
  \/ \E t \in Threads : OwnerUpdateEnter(t)
  \/ \E t \in Threads : OwnerUpdateAbsent(t)
  \/ \E t \in Threads : OwnerUpdateAssign(t)
  \/ \E t \in Threads : OwnerUpdateLeave(t)
  \/ \E t \in Threads : ThreadReturn(t)
  \/ Tick

SpecOwner == Init /\ [][NextOwner]_vars

\* The per-owner store with its reads: create_task, update_task,
\* get_user_context and get_task_dict from concurrent client threads.
NextOwnerRead ==
  \/ \E t \in Threads, u \in Users, id \in OwnerTaskIds : CallCreateTask(t, u, id)
  \/ \E t \in Threads, u \in Users : CallGetUserContext(t, u)
  \/ \E t \in Threads, u \in Users, id \in OwnerTaskIds, kw \in ClientKwargs :
       CallUpdateTask(t, u, id, kw)
  \/ \E t \in Threads, u \in Users, id \in OwnerTaskIds : CallGetTaskDict(t, u, id)
  \/ \E t \in Threads : InitUserAcquire(t)
  \/ \E t \in Threads : InitUserCheck(t)
  \/ \E t \in Threads : InitUserConstruct(t)
  \/ \E t \in Threads : InitUserConstructRaises(t)
  \/ \E t \in Threads : InitUserRelease(t)
  \/ \E t \in Threads : CreateTaskInsert(t)
  \/ \E t \in Threads : GetUserContextRead(t)
  \/ \E t \in Threads : OwnerUpdateEnter(t)
  \/ \E t \in Threads : OwnerUpdateAbsent(t)
  \/ \E t \in Threads : OwnerUpdateAssign(t)
  \/ \E t \in Threads : OwnerUpdateLeave(t)
  \/ \E t \in Threads : GetTaskDictLookup(t)
  \/ \E t \in Threads : GetTaskDictField(t)
  \/ \E t \in Threads : GetTaskDictValue(t)
  \/ \E t \in Threads : ThreadReturn(t)

SpecOwnerRead == Init /\ [][NextOwnerRead]_vars

\* ------------------ the chunk packer (utils/openai_summarizer_utils.py)

\* A text is a sequence of characters: "a" stands for a word of one token,
\* "." and "|" are the delimiters the packer is called with.
Chars == {"a", ".", "|"}

Delimiters == {".", "|"}

Texts == UNION {[1..n -> Chars] : n \in 0..MaxLen}

\* The overflow marker "...".
Ellipsis == <<".", ".", ".">>

\* Mutant of NumTokens: every text counts as one token.
NumTokensOne(text) == 1

\* num_tokens_from_text: the length of the encoding. Every word and every
\* "|" is a token of its own and a run of full stops is one token (as "..."
\* is), so joining two texts can give fewer tokens than they have together.
NumTokens(text) ==
  Cardinality({i \in 1..Len(text) : text[i] # "." \/ i = 1 \/ text[i - 1] # "."})

\* The positions of the delimiter in the text.
DelimiterPositions(text, delimiter) == {i \in 1..Len(text) : text[i] = delimiter}

\* str.split(delimiter): the pieces between the delimiters, empty ones
\* included; a text without the delimiter is its own only piece.
Split(text, delimiter) ==
  LET P == DelimiterPositions(text, delimiter)
      pos(k) == IF k = 0 THEN 0
                ELSE IF k = Cardinality(P) + 1 THEN Len(text) + 1
                ELSE CHOOSE p \in P : Cardinality({q \in P : q <= p}) = k
  IN [k \in 1..(Cardinality(P) + 1) |-> SubSeq(text, pos(k - 1) + 1, pos(k) - 1)]

RECURSIVE Join(_, _)
\* delimiter.join(pieces)
Join(pieces, delimiter) ==
  IF Len(pieces) = 0 THEN <<>>
  ELSE IF Len(pieces) = 1 THEN pieces[1]
  ELSE pieces[1] \o <<delimiter>> \o Join(Tail(pieces), delimiter)

\* The state of the loop of _combine_chunks_with_no_minimum.
Packing(output, candidate, dropped) ==
  [output |-> output, candidate |-> candidate, dropped |-> dropped]

\* Mutant of PackChunk: the piece that does not fit the candidate is lost
\* when the candidate is saved.
PackChunkForgets(st, chunk, max_tokens, delimiter) ==
  IF NumTokens(chunk) > max_tokens
  THEN IF NumTokens(Join(Append(st.candidate, Ellipsis), delimiter)) <= max_tokens
       THEN Packing(st.output, Append(st.candidate, Ellipsis), st.dropped + 1)
       ELSE st
  ELSE IF NumTokens(Join(Append(st.candidate, chunk), delimiter)) > max_tokens
       THEN Packing(Append(st.output, Join(st.candidate, delimiter)), <<>>, st.dropped)
       ELSE Packing(st.output, Append(st.candidate, chunk), st.dropped)

\* One pass of the loop body (header None, add_ellipsis_for_overflow True).
PackChunk(st, chunk, max_tokens, delimiter) ==
  IF NumTokens(chunk) > max_tokens
  THEN IF NumTokens(Join(Append(st.candidate, Ellipsis), delimiter)) <= max_tokens
       THEN Packing(st.output, Append(st.candidate, Ellipsis), st.dropped + 1)
       ELSE st
  ELSE IF NumTokens(Join(Append(st.candidate, chunk), delimiter)) > max_tokens
       THEN Packing(Append(st.output, Join(st.candidate, delimiter)), <<chunk>>, st.dropped)
       ELSE Packing(st.output, Append(st.candidate, chunk), st.dropped)

RECURSIVE PackFrom(_, _, _, _, _)
\* The loop over the chunks from index i on.
PackFrom(st, chunks, i, max_tokens, delimiter) ==
  IF i > Len(chunks) THEN st
  ELSE PackFrom(PackChunk(st, chunks[i], max_tokens, delimiter), chunks, i + 1,
                max_tokens, delimiter)

\* _combine_chunks_with_no_minimum(chunks, max_tokens, chunk_delimiter,
\* add_ellipsis_for_overflow=True): the candidates in output order, each as
\* the list of its pieces, the last one added when it is not empty.
CombinedCandidates(chunks, max_tokens, delimiter) ==
  LET st == PackFrom(Packing(<<>>, <<>>, 0), chunks, 1, max_tokens, delimiter) IN
    IF Len(st.candidate) > 0
    THEN Append(st.output, Join(st.candidate, delimiter))
    ELSE st.output

\* Mutant of ChunkOnDelimiter: the delimiter is not appended to the segments.
ChunkOnDelimiterBare(text, max_tokens, delimiter) ==
  CombinedCandidates(Split(text, delimiter), max_tokens, delimiter)

\* chunk_on_delimiter: split, pack, and append the delimiter to each segment.
ChunkOnDelimiter(text, max_tokens, delimiter) ==
  LET combined == CombinedCandidates(Split(text, delimiter), max_tokens, delimiter) IN
    [i \in 1..Len(combined) |-> combined[i] \o <<delimiter>>]

\* chunk_on_delimiter is called and returns.
CallChunkOnDelimiter(text, max_tokens, delimiter) ==
  /\ kpc = "idle"
  /\ kpc' = "returned"
  /\ kin' = [fn |-> "chunk_on_delimiter", text |-> text, max_tokens |-> max_tokens,
             delimiter |-> delimiter]
  /\ kout' = Some(ChunkOnDelimiter(text, max_tokens, delimiter))
  /\ UNCHANGED <<now, appVars, ownerVars, collabVars>>

\* The caller takes the returned value.
FunctionDone ==
  /\ kpc = "returned"
  /\ kpc' = "idle"
  /\ kin' = NoArgs
  /\ kout' = None
  /\ UNCHANGED <<now, appVars, ownerVars, collabVars>>

\* ------------------------------ OpenAI_Summarizer.summarize (the request)

\* The detail levels k / DetailSteps, as their numerators k.
DetailLevels == 0..DetailSteps

\* Mutant of NumChunks: min_chunks is not taken off max_chunks.
NumChunksNoOffset(k, max_chunks) == (DetailSteps + k * max_chunks) \div DetailSteps

\* Mutant of NumChunks: round() to the nearest integer instead of int().
NumChunksRounded(k, max_chunks) ==
  (2 * (DetailSteps + k * (max_chunks - 1)) + DetailSteps) \div (2 * DetailSteps)

\* int(min_chunks + detail * (max_chunks - min_chunks)) with min_chunks = 1
\* and detail = k / DetailSteps; the value is never negative, so int() is the
\* floor.
NumChunks(k, max_chunks) == (DetailSteps + k * (max_chunks - 1)) \div DetailSteps

Max(a, b) == IF a >= b THEN a ELSE b

\* summarize up to the request it sends: max_chunks from the probe packing at
\* minimum_chunk_size, num_chunks, document_length, chunk_size and the
\* chunks that get a label; document_length // num_chunks raises
\* ZeroDivisionError when num_chunks is 0.
Summarize(text, k, minimum_chunk_size, chunk_delimiter) ==
  LET max_chunks == Len(ChunkOnDelimiter(text, minimum_chunk_size, chunk_delimiter))
      num_chunks == NumChunks(k, max_chunks)
      document_length == NumTokens(text)
  IN IF num_chunks = 0
     THEN [raised |-> Some("ZeroDivisionError"), max_chunks |-> max_chunks,
           num_chunks |-> num_chunks, document_length |-> document_length,
           chunk_size |-> 0, labeled |-> <<>>]
     ELSE LET chunk_size == Max(minimum_chunk_size, document_length \div num_chunks) IN
            [raised |-> None, max_chunks |-> max_chunks, num_chunks |-> num_chunks,
             document_length |-> document_length, chunk_size |-> chunk_size,
             labeled |-> ChunkOnDelimiter(text, chunk_size, chunk_delimiter)]

\* summarize is called and has built its request (or raised).
CallSummarize(text, k, minimum_chunk_size, chunk_delimiter) ==
  /\ kpc = "idle"
  /\ kpc' = "returned"
  /\ kin' = [fn |-> "summarize", text |-> text, detail |-> k,
             minimum_chunk_size |-> minimum_chunk_size, delimiter |-> chunk_delimiter]
  /\ kout' = Some(Summarize(text, k, minimum_chunk_size, chunk_delimiter))
  /\ UNCHANGED <<now, appVars, ownerVars, collabVars>>

\* The chunk packer and the summarizer called on every text and budget.
NextChunk ==
  \/ \E text \in Texts, m \in 0..MaxTokens, d \in Delimiters :
       CallChunkOnDelimiter(text, m, d)
  \/ \E text \in Texts, k \in DetailLevels, m \in 0..MaxTokens, d \in Delimiters :
       CallSummarize(text, k, m, d)
  \/ FunctionDone

SpecChunk == Init /\ [][NextChunk]_vars

\* ------------------------- the feed lookup (RSS_Feed_Downloader and utils)

\* Titles and episode names are made of a lower-case letter, an upper-case
\* letter and a punctuation mark.
TitleChars == {"a", "B", "!"}

TitleStrings == UNION {[1..n -> TitleChars] : n \in 0..MaxTitle}

\* validate_episode_name lets through names of at least 3 characters.
MinEpisodeName == 3

EpisodeNames == [1..MinEpisodeName -> TitleChars]

\* An entry of the parsed feed: with a title, or without a title element.
Entries == {[title |-> t] : t \in {None} \cup {Some(x) : x \in TitleStrings}}

\* The feeds validate_url accepts: fetched, parsed, at least one entry.
Feeds == UNION {[1..n -> Entries] : n \in 1..MaxEntries}

Lower(c) == IF c = "B" THEN "b" ELSE c

\* _normalize_title: lower case, punctuation removed.
NormalizeTitle(title) ==
  LET kept == SelectSeq(title, LAMBDA c : c # "!") IN
    [i \in 1..Len(kept) |-> Lower(kept[i])]

\* The Python test "sub in s" on strings.
Contains(sub, s) ==
  \E i \in 1..(Len(s) + 1) :
    i + Len(sub) - 1 <= Len(s) /\ SubSeq(s, i, i + Len(sub) - 1) = sub

\* The two tests of the loop of get_episode_entry.
TitleMatches(episode_name, title) ==
  \/ NormalizeTitle(episode_name) = NormalizeTitle(title)
  \/ Contains(NormalizeTitle(episode_name), NormalizeTitle(title))

EpisodeNotFound == [cls |-> "ValueError", msg |-> "Episode '<episode_name>' not found in the RSS feed"]

FetchFailed == [cls |-> "RequestException", msg |-> "Failed to fetch RSS feed"]

RECURSIVE GetEpisodeEntry(_, _, _)
\* get_episode_entry from entry i on: the index of the first entry that
\* matches, None when the loop ends without one; entry.title of an entry
\* without a title raises AttributeError, which the except clause turns into
\* RequestException("Failed to fetch RSS feed").
GetEpisodeEntry(feed, episode_name, i) ==
  IF i > Len(feed) THEN [raised |-> None, entry |-> None]
  ELSE IF feed[i].title = None THEN [raised |-> Some(FetchFailed), entry |-> None]
  ELSE IF TitleMatches(episode_name, feed[i].title[1])
       THEN [raised |-> None, entry |-> Some(i)]
       ELSE GetEpisodeEntry(feed, episode_name, i + 1)

\* download_episode up to the test of the entry: the exception it raises, or
\* the entry it goes on with.
DownloadEpisode(feed, episode_name) ==
  LET found == GetEpisodeEntry(feed, episode_name, 1) IN
    IF found.raised # None THEN found
    ELSE IF found.entry = None THEN [raised |-> Some(EpisodeNotFound), entry |-> None]
    ELSE found

\* download_episode is called on a feed and an episode name.
CallDownloadEpisode(feed, episode_name) ==
  /\ kpc = "idle"
  /\ kpc' = "returned"
  /\ kin' = [fn |-> "download_episode", feed |-> feed, episode_name |-> episode_name]
  /\ kout' = Some(DownloadEpisode(feed, episode_name))
  /\ UNCHANGED <<now, appVars, ownerVars, collabVars>>

\* The feed downloader called on every feed and episode name.
NextFeed ==
  \/ \E feed \in Feeds, name \in EpisodeNames : CallDownloadEpisode(feed, name)
  \/ FunctionDone

SpecFeed == Init /\ [][NextFeed]_vars

\* ------------------- the submission endpoint (validate_request_data etc.)

\* source_url: missing, a URL the YouTube patterns accept, a URL that serves
\* a feed with audio episodes, or a URL that is neither.
SourceUrls == {None, Some("youtube-url"), Some("feed-url"), Some("other-url")}

Platforms == {None, Some(""), Some("YouTube"), Some("rss"), Some("vimeo")}

\* episode_name: missing, or letters and blanks.
NameStrings == UNION {[1..n -> {"a", " "}] : n \in 0..MaxName}

RequestNames == {None} \cup {Some(x) : x \in NameStrings}

\* detail_level: missing, a number (in units of 1/DetailSteps) or a string
\* that is no number.
Number(k) == [numeric |-> TRUE, k |-> k]

NotANumber == [numeric |-> FALSE, k |-> 0]

DetailValues == {None, Some(NotANumber)} \cup {Some(Number(k)) : k \in -1..(DetailSteps + 1)}

\* The JSON bodies of POST /api/summarize; None is the missing body.
RequestBodies ==
  {None} \cup
  {Some([source_url |-> u, platform |-> p, episode_name |-> n, detail_level |-> d]) :
     u \in SourceUrls, p \in Platforms, n \in RequestNames, d \in DetailValues}

\* str.lower() on the platform names.
LowerPlatform(p) == IF p = "YouTube" THEN "youtube" ELSE p

RECURSIVE LStrip(_)
LStrip(x) == IF Len(x) > 0 /\ x[1] = " " THEN LStrip(Tail(x)) ELSE x

RECURSIVE RStrip(_)
RStrip(x) ==
  IF Len(x) > 0 /\ x[Len(x)] = " " THEN RStrip(SubSeq(x, 1, Len(x) - 1)) ELSE x

\* str.strip()
Strip(x) == RStrip(LStrip(x))

Valid(value) == [valid |-> TRUE, value |-> value, error |-> ""]

Invalid(error) == [valid |-> FALSE, value |-> None, error |-> error]

\* InputValidator.validate_platform
ValidatePlatform(platform) ==
  IF platform = None \/ platform = Some("") THEN Invalid("Platform is required")
  ELSE IF LowerPlatform(platform[1]) \in {"youtube", "rss"}
       THEN Valid(LowerPlatform(platform[1]))
       ELSE Invalid("Platform must be either 'youtube' or 'rss'")

\* URLValidator.validate_youtube_url / validate_rss_url, by platform.
ValidateUrl(platform, source_url) ==
  IF platform = "youtube"
  THEN IF source_url = Some("youtube-url") THEN Valid(source_url)
       ELSE Invalid("Invalid youtube URL")
  ELSE IF source_url = Some("feed-url") THEN Valid(source_url)
       ELSE Invalid("Invalid rss URL")

\* InputValidator.validate_episode_name
ValidateEpisodeName(episode_name, platform) ==
  IF platform = "rss"
  THEN IF episode_name = None \/ episode_name = Some(<<>>)
       THEN Invalid("Episode name is required for RSS feeds")
       ELSE IF Len(Strip(episode_name[1])) < MinEpisodeName
            THEN Invalid("Episode name must be at least 3 characters long")
            ELSE Valid(Some(Strip(episode_name[1])))
  ELSE Valid(episode_name)

\* Mutant of ValidateDetailLevel: the range is not tested.
ValidateDetailLevelAnyNumber(detail_level) ==
  IF detail_level = None THEN Valid(DetailSteps \div 2)
  ELSE IF ~detail_level[1].numeric
       THEN Invalid("Detail level must be a number between 0.0 and 1.0")
       ELSE Valid(detail_level[1].k)

\* InputValidator.validate_detail_level
ValidateDetailLevel(detail_level) ==
  IF detail_level = None THEN Valid(DetailSteps \div 2)
  ELSE IF ~detail_level[1].numeric
       THEN Invalid("Detail level must be a number between 0.0 and 1.0")
       ELSE IF 0 <= detail_level[1].k /\ detail_level[1].k <= DetailSteps
            THEN Valid(detail_level[1].k)
            ELSE Invalid("Detail level must be between 0.0 and 1.0")

\* The errors of the validations that failed, in order.
Errors(validations) ==
  LET failed == SelectSeq(validations, LAMBDA v : ~v.valid) IN
    [i \in 1..Len(failed) |-> failed[i].error]

\* validate_request_data
ValidateRequestData(data) ==
  LET required == (IF data.source_url = None THEN <<"source_url is required">> ELSE <<>>)
                  \o (IF data.platform \in {None, Some("")}
                      THEN <<"platform is required">> ELSE <<>>)
      platform == ValidatePlatform(data.platform)
  IN IF required # <<>> THEN [valid |-> FALSE, errors |-> required]
     ELSE IF ~platform.valid THEN [valid |-> FALSE, errors |-> <<platform.error>>]
     ELSE LET errors == Errors(<<ValidateUrl(platform.value, data.source_url),
                                ValidateEpisodeName(data.episode_name, platform.value),
                                ValidateDetailLevel(data.detail_level)>>)
          IN [valid |-> errors = <<>>, errors |-> errors]

\* The answer of summarize_endpoint.
SubmitResponse(code, errors, task_id) ==
  [code |-> code, errors |-> errors, task_id |-> task_id]

\* summarize_endpoint: a missing body or a failed validation is answered 400;
\* otherwise the task is created under a fresh id, its worker is started and
\* the answer is 202 with the id.
SummarizeEndpoint(body) ==
  /\ kpc = "idle"
  /\ kpc' = "returned"
  /\ kin' = [fn |-> "summarize_endpoint", body |-> body]
  /\ IF body = None
     THEN /\ kout' = Some(SubmitResponse(400, <<"Request body is required">>, None))
          /\ UNCHANGED <<storeVars, wpc>>
     ELSE IF ~ValidateRequestData(body[1]).valid
          THEN /\ kout' = Some(SubmitResponse(400, ValidateRequestData(body[1]).errors, None))
               /\ UNCHANGED <<storeVars, wpc>>
          ELSE /\ Len(heap) < MaxTasks
               /\ CreateTask(Uuid4)
               /\ wpc' = [wpc EXCEPT ![Uuid4] = "upd_downloading"]
               /\ kout' = Some(SubmitResponse(202, <<>>, Some(Uuid4)))
  /\ UNCHANGED <<now, upos, wexc, upre, touched, cleanupVars, pollVars, pcands, ownerVars, collabVars>>

\* The submission endpoint called with every body.
NextSubmit ==
  \/ \E body \in RequestBodies : SummarizeEndpoint(body)
  \/ FunctionDone

SpecSubmit == Init /\ [][NextSubmit]_vars

\* -------------------------------- SaladTranscriber.transcribe_from_url

\* What a request to the transcription service can give: the job is not
\* finished, the request fails (requests.RequestException), the job
\* succeeded, it succeeded with output.error set, or it has another status.
PollOutcomes == {"waiting", "request_error", "succeeded", "output_error", "job_failed"}

Returns(text) == [kind |-> "return", value |-> text]

Raises(message) == [kind |-> "raise", value |-> message]

\* Mutant of AfterRequestError: a failed status request is not counted.
AfterRequestErrorUncounted(n) == n

\* attempt += 1 after a failed status request.
AfterRequestError(n) == n + 1

\* The job is posted: the request fails, which the outer except turns into
\* "Transcription request failed", or the job id is returned and the loop
\* starts with attempt 0.
TranscribeFromUrlPost(ok) ==
  /\ spc = "idle"
  /\ npolls' = 0
  /\ slast' = "none"
  /\ attempt' = 0
  /\ IF ok
     THEN spc' = "loop" /\ sout' = None
     ELSE spc' = "returned" /\ sout' = Some(Raises("Transcription request failed"))
  /\ UNCHANGED <<now, appVars, ownerVars, kpc, kin, kout, transcribeVars, ytVars>>

\* One turn of the loop: the status request and what follows from its
\* outcome.
TranscribeFromUrlPoll(outcome) ==
  /\ spc = "loop"
  /\ attempt < MaxAttempts
  /\ npolls' = npolls + 1
  /\ slast' = outcome
  /\ CASE outcome = "waiting" ->
            /\ attempt' = attempt + 1
            /\ UNCHANGED <<spc, sout>>
       [] outcome = "request_error" ->
            IF attempt >= MaxAttempts - 1
            THEN /\ spc' = "returned"
                 /\ sout' = Some(Raises("Transcription request failed"))
                 /\ UNCHANGED attempt
            ELSE /\ attempt' = AfterRequestError(attempt)
                 /\ UNCHANGED <<spc, sout>>
       [] outcome = "succeeded" ->
            /\ spc' = "returned"
            /\ sout' = Some(Returns("text"))
            /\ UNCHANGED attempt
       [] outcome = "output_error" ->
            /\ spc' = "returned"
            /\ sout' = Some(Raises("Transcription error"))
            /\ UNCHANGED attempt
       [] outcome = "job_failed" ->
            /\ spc' = "returned"
            /\ sout' = Some(Raises("Transcription job failed"))
            /\ UNCHANGED attempt
  /\ UNCHANGED <<now, appVars, ownerVars, kpc, kin, kout, transcribeVars, ytVars>>

\* The while test fails: raise Exception("Transcription job timed out").
TranscribeFromUrlTimeout ==
  /\ spc = "loop"
  /\ attempt >= MaxAttempts
  /\ spc' = "returned"
  /\ sout' = Some(Raises("Transcription job timed out"))
  /\ UNCHANGED <<now, appVars, ownerVars, kpc, kin, kout, attempt, npolls, slast, transcribeVars, ytVars>>

\* The caller has the text or the exception.
TranscribeFromUrlDone ==
  /\ spc = "returned"
  /\ spc' = "idle"
  /\ sout' = None
  /\ attempt' = 0
  /\ npolls' = 0
  /\ slast' = "none"
  /\ UNCHANGED <<now, appVars, ownerVars, kpc, kin, kout, transcribeVars, ytVars>>

\* One transcription job after another, with every sequence of outcomes.
NextPoll ==
  \/ \E ok \in BOOLEAN : TranscribeFromUrlPost(ok)
  \/ \E outcome \in PollOutcomes : TranscribeFromUrlPoll(outcome)
  \/ TranscribeFromUrlTimeout
  \/ TranscribeFromUrlDone

SpecPoll == Init /\ [][NextPoll]_vars

\* ------------------------------------- SaladTranscriber.transcribe

\* The characters of a transcript: a letter and a carriage return; a line
\* feed appears when a file is read.
TranscriptChars == {"a", "CR"}

\* The texts the transcription service returns.
Transcripts == UNION {[1..n -> TranscriptChars] : n \in 0..MaxTranscript}

\* file.write(text) on a file opened with open(path, "w", encoding="utf-8")
\* on Linux: line feeds become os.linesep, a line feed; the rest is kept.
WriteText(text) == text

\* f.read() on a file opened with open(path, "r", encoding="utf-8"):
\* universal newlines, "\r\n" and "\r" are read as "\n".
RECURSIVE ReadText(_)
ReadText(content) ==
  IF content = <<>> THEN <<>>
  ELSE IF content[1] = "CR"
       THEN IF Len(content) > 1 /\ content[2] = "LF"
            THEN <<"LF">> \o ReadText(SubSeq(content, 3, Len(content)))
            ELSE <<"LF">> \o ReadText(Tail(content))
       ELSE <<content[1]>> \o ReadText(Tail(content))

\* A job calls transcribe(audio_path, video_id); audio_path is a URL or a
\* local file.
TranscribeCall(c, id, audio) ==
  /\ xpc[c] = "idle"
  /\ xpc' = [xpc EXCEPT ![c] = "check"]
  /\ xcall' = [xcall EXCEPT ![c] = [video_id |-> id, audio |-> audio]]
  /\ xhad' = [xhad EXCEPT ![c] = files[id] # None]
  /\ xprior' = [xprior EXCEPT ![c] = first[id]]
  /\ xcontact' = [xcontact EXCEPT ![c] = FALSE]
  /\ UNCHANGED <<now, appVars, ownerVars, kpc, kin, kout, pollLoopVars, ytVars, files, xtext, xout, first>>

\* if os.path.exists(transcript_path): return f.read(); otherwise go on to
\* the upload of a local file or to the transcription of a URL.
TranscribeCheck(c) ==
  /\ xpc[c] = "check"
  /\ LET id == xcall[c].video_id IN
       IF files[id] # None
       THEN /\ xout' = [xout EXCEPT ![c] = Some(Returns(ReadText(files[id][1])))]
            /\ xpc' = [xpc EXCEPT ![c] = "returned"]
            /\ first' = IF first[id] = None
                        THEN [first EXCEPT ![id] = Some(ReadText(files[id][1]))]
                        ELSE first
       ELSE /\ xpc' = [xpc EXCEPT ![c] = IF xcall[c].audio = "file" THEN "upload" ELSE "service"]
            /\ UNCHANGED <<xout, first>>
  /\ UNCHANGED <<now, appVars, ownerVars, kpc, kin, kout, pollLoopVars, ytVars, files, xcall, xtext, xhad, xprior, xcontact>>

\* self.upload(audio_path) returns the file's URL, or raises and the except
\* clause raises Exception("Transcription failed").
TranscribeUpload(c, ok) ==
  /\ xpc[c] = "upload"
  /\ xcontact' = [xcontact EXCEPT ![c] = TRUE]
  /\ IF ok
     THEN xpc' = [xpc EXCEPT ![c] = "service"] /\ UNCHANGED xout
     ELSE /\ xpc' = [xpc EXCEPT ![c] = "returned"]
          /\ xout' = [xout EXCEPT ![c] = Some(Raises("Transcription failed"))]
  /\ UNCHANGED <<now, appVars, ownerVars, kpc, kin, kout, pollLoopVars, ytVars, files, xcall, xtext, xhad, xprior, first>>

\* self.transcribe_from_url(...) returns the service's text, or raises and
\* the except clause raises Exception("Transcription failed").
TranscribeService(c, result) ==
  /\ xpc[c] = "service"
  /\ xcontact' = [xcontact EXCEPT ![c] = TRUE]
  /\ IF result.kind = "return"
     THEN /\ xtext' = [xtext EXCEPT ![c] = Some(result.value)]
          /\ xpc' = [xpc EXCEPT ![c] = "save"]
          /\ UNCHANGED xout
     ELSE /\ xpc' = [xpc EXCEPT ![c] = "returned"]
          /\ xout' = [xout EXCEPT ![c] = Some(Raises("Transcription failed"))]
          /\ UNCHANGED xtext
  /\ UNCHANGED <<now, appVars, ownerVars, kpc, kin, kout, pollLoopVars, ytVars, files, xcall, xhad, xprior, first>>

\* self.save_transcript(transcribed_text, transcript_path) writes the file
\* and transcribe returns transcribed_text; or it raises and the except
\* clause raises Exception("Transcription failed").
TranscribeSave(c, ok) ==
  /\ xpc[c] = "save"
  /\ xpc' = [xpc EXCEPT ![c] = "returned"]
  /\ LET id == xcall[c].video_id IN
       IF ok
       THEN /\ files' = [files EXCEPT ![id] = Some(WriteText(xtext[c][1]))]
            /\ xout' = [xout EXCEPT ![c] = Some(Returns(xtext[c][1]))]
            /\ first' = IF first[id] = None
                        THEN [first EXCEPT ![id] = xtext[c]]
                        ELSE first
       ELSE /\ xout' = [xout EXCEPT ![c] = Some(Raises("Transcription failed"))]
            /\ UNCHANGED <<files, first>>
  /\ UNCHANGED <<now, appVars, ownerVars, kpc, kin, kout, pollLoopVars, ytVars, xcall, xtext, xhad, xprior, xcontact>>

\* The job has the text or the exception.
TranscribeDone(c) ==
  /\ xpc[c] = "returned"
  /\ xpc' = [xpc EXCEPT ![c] = "idle"]
  /\ xcall' = [xcall EXCEPT ![c] = NoTranscribe]
  /\ xtext' = [xtext EXCEPT ![c] = None]
  /\ xout' = [xout EXCEPT ![c] = None]
  /\ xhad' = [xhad EXCEPT ![c] = FALSE]
  /\ xprior' = [xprior EXCEPT ![c] = None]
  /\ xcontact' = [xcontact EXCEPT ![c] = FALSE]
  /\ UNCHANGED <<now, appVars, ownerVars, kpc, kin, kout, pollLoopVars, ytVars, files, first>>

\* The jobs' transcribe calls on the one transcriber.
NextTranscribe ==
  \/ \E c \in Callers, id \in ContentIds, audio \in {"url", "file"} : TranscribeCall(c, id, audio)
  \/ \E c \in Callers : TranscribeCheck(c)
  \/ \E c \in Callers, ok \in BOOLEAN : TranscribeUpload(c, ok)
  \/ \E c \in Callers, t \in Transcripts : TranscribeService(c, Returns(t))
  \/ \E c \in Callers : TranscribeService(c, Raises("Transcription job timed out"))
  \/ \E c \in Callers, ok \in BOOLEAN : TranscribeSave(c, ok)
  \/ \E c \in Callers : TranscribeDone(c)

SpecTranscribe == Init /\ [][NextTranscribe]_vars

\* ------------------------------------------ YTDownloader.download_episode

\* The video URLs of the jobs, one per content id.
VideoUrls == {<<"https://youtu.be/", id>> : id \in ContentIds}

\* extract_video_id
ExtractVideoId(url) == url[2]

\* os.path.join(self.downloads_path, video_id, video_id + extension)
OutputTemplate(video_id, extension) == <<"downloads", video_id, extension>>

\* self.video_id as the call reads it: the attribute of the shared instance.
InstanceVideoId(c) == yvid

\* A job calls download_episode(source_url, None): the URL is valid, and
\* self.source_url = source_url.split("&")[0].
DownloadEpisodeSetUrl(c, url) ==
  /\ ypc[c] = "idle"
  /\ yurl' = [yurl EXCEPT ![c] = Some(url)]
  /\ ysource' = Some(url)
  /\ ypc' = [ypc EXCEPT ![c] = "set_id"]
  /\ UNCHANGED <<now, appVars, ownerVars, kpc, kin, kout, pollLoopVars, transcribeVars, yvid, ymp3, yout>>

\* self.video_id = extract_video_id(self.source_url)
DownloadEpisodeSetId(c) ==
  /\ ypc[c] = "set_id"
  /\ yvid' = Some(ExtractVideoId(ysource[1]))
  /\ ypc' = [ypc EXCEPT ![c] = "audio"]
  /\ UNCHANGED <<now, appVars, ownerVars, kpc, kin, kout, pollLoopVars, transcribeVars, ysource, yurl, ymp3, yout>>

\* mp3_path = self._download_file(".mp3", audio_only=True): the path is
\* built from self.video_id; yt-dlp fetches self.source_url or raises.
DownloadEpisodeAudio(c, ok) ==
  /\ ypc[c] = "audio"
  /\ IF ok
     THEN /\ ymp3' = [ymp3 EXCEPT ![c] = Some(OutputTemplate(InstanceVideoId(c)[1], ".mp3"))]
          /\ ypc' = [ypc EXCEPT ![c] = "metadata"]
          /\ UNCHANGED yout
     ELSE /\ yout' = [yout EXCEPT ![c] = Some(Raises("Failed to download YouTube video"))]
          /\ ypc' = [ypc EXCEPT ![c] = "returned"]
          /\ UNCHANGED ymp3
  /\ UNCHANGED <<now, appVars, ownerVars, kpc, kin, kout, pollLoopVars, transcribeVars, ysource, yvid, yurl>>

\* The metadata file is downloaded and loaded, metadata["video_id"] =
\* self.video_id, and mp3_path and metadata are returned.
DownloadEpisodeMetadata(c) ==
  /\ ypc[c] = "metadata"
  /\ yout' = [yout EXCEPT ![c] =
                Some([kind |-> "return", audio |-> ymp3[c][1],
                      video_id |-> InstanceVideoId(c)[1]])]
  /\ ypc' = [ypc EXCEPT ![c] = "returned"]
  /\ UNCHANGED <<now, appVars, ownerVars, kpc, kin, kout, pollLoopVars, transcribeVars, ysource, yvid, yurl, ymp3>>

\* The job has the audio path and the metadata, or the exception.
DownloadEpisodeDone(c) ==
  /\ ypc[c] = "returned"
  /\ ypc' = [ypc EXCEPT ![c] = "idle"]
  /\ yurl' = [yurl EXCEPT ![c] = None]
  /\ ymp3' = [ymp3 EXCEPT ![c] = None]
  /\ yout' = [yout EXCEPT ![c] = None]
  /\ UNCHANGED <<now, appVars, ownerVars, kpc, kin, kout, pollLoopVars, transcribeVars, ysource, yvid>>

\* The jobs' download_episode calls on the one YTDownloader.
NextYT ==
  \/ \E c \in Callers, url \in VideoUrls : DownloadEpisodeSetUrl(c, url)
  \/ \E c \in Callers : DownloadEpisodeSetId(c)
  \/ \E c \in Callers, ok \in BOOLEAN : DownloadEpisodeAudio(c, ok)
  \/ \E c \in Callers : DownloadEpisodeMetadata(c)
  \/ \E c \in Callers : DownloadEpisodeDone(c)

SpecYT == Init /\ [][NextYT]_vars

\* The service as app.py runs it: submissions, their workers and the polling
\* endpoints (cleanup_old_tasks runs only before the server starts).
Next ==
  \/ Submit
  \/ \E id \in TaskIds : UpdateTaskEnter(id)
  \/ \E id \in TaskIds : UpdateTaskAssign(id)
  \/ \E id \in TaskIds : UpdateTaskLeave(id)
  \/ \E id \in TaskIds : StageReturns(id)
  \/ \E id \in TaskIds : StageRaises(id)
  \/ \E id \in TaskIds : PollNotFound(id)
  \/ \E id \in TaskIds : PollStatus(id)
  \/ AsdictField
  \/ StatusValueRead
  \/ \E id \in TaskIds : PollResult(id)
  \/ ResultTestCompleted
  \/ ResultReadResult
  \/ ResultTestFailed
  \/ ResultReadError
  \/ ResultReadValue
  \/ PollDone

Spec == Init /\ [][Next]_vars

\* One step of the worker thread of task id.
WorkerStep(id) ==
  \/ UpdateTaskEnter(id)
  \/ UpdateTaskAssign(id)
  \/ UpdateTaskLeave(id)
  \/ StageReturns(id)
  \/ StageRaises(id)

\* Submissions, their workers and clients polling the result endpoint.
NextLive ==
  \/ Submit
  \/ \E id \in TaskIds : WorkerStep(id)
  \/ \E id \in TaskIds : PollNotFound(id)
  \/ \E id \in TaskIds : PollResult(id)
  \/ ResultTestCompleted
  \/ ResultReadResult
  \/ ResultTestFailed
  \/ ResultReadError
  \/ ResultReadValue
  \/ PollDone

\* The same with the worker threads scheduled fairly and every collaborator
\* call returning or raising in the end.
SpecLive ==
  /\ Init
  /\ [][NextLive]_vars
  /\ \A id \in TaskIds : WF_vars(WorkerStep(id))

\* One step of the client thread inside get_task_dict.
ClientStep ==
  \/ AsdictField
  \/ StatusValueRead

\* One step of the thread inside cleanup_old_tasks.
CleanupStep ==
  \/ CleanupRun
  \/ CleanupReturn

\* All five store operations at once: create_task (submissions), update_task
\* (their workers), get_task and get_task_dict (the status endpoint) and
\* cleanup_old_tasks.
NextStore ==
  \/ Submit
  \/ \E id \in TaskIds : WorkerStep(id)
  \/ \E id \in TaskIds : PollNotFound(id)
  \/ \E id \in TaskIds : PollStatus(id)
  \/ ClientStep
  \/ PollDone
  \/ CleanupSample(1)
  \/ CleanupStep

SpecStore == Init /\ [][NextStore]_vars

\* The store under eviction: submissions and their workers, the clock, and
\* cleanup_old_tasks called at any time; polls of ids the store does not hold.
NextEvict ==
  \/ Submit
  \/ \E id \in TaskIds : UpdateTaskEnter(id)
  \/ \E id \in TaskIds : UpdateTaskAbsent(id)
  \/ \E id \in TaskIds : UpdateTaskAssign(id)
  \/ \E id \in TaskIds : UpdateTaskLeave(id)
  \/ \E id \in TaskIds : StageReturns(id)
  \/ \E id \in TaskIds : StageRaises(id)
  \/ \E id \in TaskIds : PollNotFound(id)
  \/ PollDone
  \/ \E h \in MaxAgeHours : CleanupSample(h)
  \/ CleanupRun
  \/ CleanupReturn
  \/ Tick

SpecEvict == Init /\ [][NextEvict]_vars

\* ------------------------------------------------------------------ claims

NonTerminal == {"PENDING", "DOWNLOADING", "TRANSCRIBING", "SUMMARIZING"}

\* The stored record of task id.
Record(id) == heap[tasks[id]]

\* A TaskInfo as get_task_dict renders it.
AsDict(rec) == [rec EXCEPT !.status = StatusValue(rec.status)]

InResultRequest == ppc \in {"r_completed", "r_result", "r_failed", "r_error", "r_value"}

\* C1: a read issued right after create_task, before any update_task on that
\* id, returns status pending, progress 0, message "Task created" and neither
\* result nor error: both for the dict get_task_dict returns and for the
\* TaskInfo get_task returns.
C1_ReadAfterCreate ==
  /\ (ppc = "respond" /\ pout.task # None /\ ~touched[pid]) =>
       LET d == pout.task[1] IN
         /\ d.status = "pending"
         /\ d.progress = 0
         /\ d.message = "Task created"
         /\ d.result = None
         /\ d.error = None
  /\ (InResultRequest /\ ~touched[pid]) =>
       LET r == heap[pref[1]] IN
         /\ r.status = "PENDING"
         /\ r.progress = 0
         /\ r.message = "Task created"
         /\ r.result = None
         /\ r.error = None

\* C1 witness: get_task_dict has returned the dict of a task no update has
\* touched yet.
C1_Witness == ppc = "respond" /\ pout.task # None /\ ~touched[pid]

\* One step along pending -> downloading -> transcribing -> summarizing ->
\* completed, or a jump from a non-terminal status to failed.
PathStep(a, b) ==
  \/ <<a, b>> \in {<<"PENDING", "DOWNLOADING">>, <<"DOWNLOADING", "TRANSCRIBING">>,
                   <<"TRANSCRIBING", "SUMMARIZING">>, <<"SUMMARIZING", "COMPLETED">>}
  \/ a \in NonTerminal /\ b = "FAILED"

\* C2: every response reports the status its task's record holds when the
\* response is built, and the status a task id maps to changes only by one
\* step along the path or by a jump from a non-terminal status to failed; so
\* successive reads never see a status regress, and completed and failed
\* never change.
C2_StatusPath ==
  [][/\ \A id \in TaskIds :
          (id \in DOMAIN tasks /\ id \in DOMAIN tasks') =>
            \/ heap'[tasks'[id]].status = Record(id).status
            \/ PathStep(Record(id).status, heap'[tasks'[id]].status)
     /\ (ppc = "value" /\ ppc' = "respond") =>
          /\ pout'.task[1].status = StatusValue(heap[pref[1]].status)
          /\ (pid \in DOMAIN tasks => tasks[pid] = pref[1])
     /\ (ppc = "r_value" /\ ppc' = "respond") =>
          /\ pout'.status = Some(StatusValue(heap[pref[1]].status))
          /\ (pid \in DOMAIN tasks => tasks[pid] = pref[1])
    ]_vars

\* C2 witness: a response reports completed for a task whose worker went
\* through every stage.
C2_Witness ==
  /\ ppc = "respond"
  /\ pout.task # None
  /\ pout.task[1].status = "completed"
  /\ wpc[pid] = "done"

\* C3 (as claimed): every stored record has neither result nor error while
\* its status is non-terminal, a result and no error when completed, an error
\* and no result when failed.
C3_ResultErrorByStatus ==
  \A id \in DOMAIN tasks :
    LET r == Record(id) IN
      /\ r.status \in NonTerminal => (r.result = None /\ r.error = None)
      /\ r.status = "COMPLETED" => (r.result # None /\ r.error = None)
      /\ r.status = "FAILED" => (r.error # None /\ r.result = None)

\* C4 (as claimed): when a collaborator raised, the worker returns normally
\* and the record, if still stored, is failed with progress 0, message
\* "Failed" and the error str(e).
C4_FailedRecordAsClaimed ==
  \A id \in TaskIds :
    (wpc[id] = "done" /\ wexc[id] # None /\ id \in DOMAIN tasks) =>
      /\ Record(id).status = "FAILED"
      /\ Record(id).progress = 0
      /\ Record(id).message = "Failed"
      /\ Record(id).error = Some(wexc[id][1].msg)

\* C4 (amended): when a collaborator raised, control is in the except clause
\* or the worker has returned, and once it has returned the record, if still
\* stored, is failed with progress 0, message "Processing failed" and the
\* error str(e).
C4_FailedRecord ==
  \A id \in TaskIds :
    /\ wexc[id] # None => wpc[id] \in {"upd_failed", "done"}
    /\ (wpc[id] = "done" /\ wexc[id] # None /\ id \in DOMAIN tasks) =>
         /\ Record(id).status = "FAILED"
         /\ Record(id).progress = 0
         /\ Record(id).message = "Processing failed"
         /\ Record(id).error = Some(wexc[id][1].msg)
         /\ Record(id).result = None

\* C4 witness: a worker whose transcriber raised has returned and its record
\* is stored.
C4_Witness ==
  \E id \in TaskIds :
    /\ wpc[id] = "done"
    /\ wexc[id] = Some(TranscribeError)
    /\ id \in DOMAIN tasks
    /\ Record(id).progress = 0

\* C5 (as claimed): the dict get_task_dict returns equals the record as it
\* was stored at get_task or after one of the updates completed since.
C5_NoTornRead ==
  (ppc = "respond" /\ pout.task # None) =>
    \E c \in pcands :
      \A f \in {"status", "progress", "message", "result", "error"} :
        pout.task[1][f] = AsDict(c)[f]

\* C6 (as claimed): the value get_task returned to the request stays what it
\* was when it was returned.
C6_ReadReturnsCopy == InResultRequest => heap[pref[1]] = psnap[1]

\* C8: when cleanup_old_tasks deletes, every record older than max_age (by
\* the clock it read) leaves the store, and every record younger than max_age
\* keeps its entry and its fields.
C8_CleanupEvicts ==
  [][(cpc = "sampled" /\ cpc' = "done") =>
       \A id \in DOMAIN tasks :
         LET age == ccur - Record(id).created_at IN
           /\ age > ccut => id \notin DOMAIN tasks'
           /\ age < ccut =>
                /\ id \in DOMAIN tasks'
                /\ tasks'[id] = tasks[id]
                /\ heap'[tasks[id]] = Record(id)
    ]_vars

\* C8 witness: one cleanup_old_tasks deleted a record and kept a younger one.
C8_Witness ==
  /\ cpc = "done"
  /\ cexp # {}
  /\ ckept # {}
  /\ ckept \subseteq DOMAIN tasks
  /\ cexp \cap DOMAIN tasks = {}

\* C10: update_task and a read on an id the store does not hold leave the
\* store as it is, the read answers not found, and an id that was evicted
\* stays absent whatever its worker does afterwards.
C10_AbsentStaysAbsent ==
  [][\A id \in TaskIds :
       /\ (id \notin DOMAIN tasks /\ wpc[id] \in UpdateStages /\ wpc'[id] # wpc[id]) =>
            (tasks' = tasks /\ heap' = heap)
       /\ (id \notin DOMAIN tasks /\ ppc = "idle" /\ ppc' = "respond" /\ pid' = id) =>
            (pout'.code = 404 /\ tasks' = tasks /\ heap' = heap)
       /\ (id \notin DOMAIN tasks /\ wpc[id] # "none") => id \notin DOMAIN tasks'
    ]_vars

\* C10 witness: a worker ran to its end after its record was evicted, and
\* the record is absent.
C10_Witness ==
  \E id \in TaskIds :
    /\ wpc[id] = "done"
    /\ touched[id]
    /\ id \notin DOMAIN tasks

\* C7: for every owner, whatever the interleaving of the concurrent first
\* calls of create_task and get_user_context for that owner, at most one
\* UserContext is ever constructed for the owner; every call that got past
\* init_user finds exactly that one instance stored, and every
\* get_user_context that returns, returns that instance.
C7_SingleConstruction ==
  /\ \A u \in Users :
       /\ octor[u] <= 1
       /\ u \in DOMAIN octx <=> octor[u] = 1
       /\ u \in DOMAIN octx => octx[u] = UserContext(u, 1)
  /\ \A t \in Threads :
       /\ tpc[t] \in {"iu_release", "ct_insert", "guc_read"} =>
            octor[tcall[t].user] = 1
       /\ tpc[t] = "ret" /\ tcall[t].op \in {"create_task", "get_user_context"}
            /\ tret[t] # Some(Raised) => octor[tcall[t].user] = 1
       /\ tpc[t] = "ret" /\ tcall[t].op = "get_user_context"
            /\ tret[t] # Some(Raised) =>
              tret[t] = Some(UserContext(tcall[t].user, 1))

\* Two first calls for the same owner overlap: one thread has constructed
\* the context and still holds the lock, the other one, which entered before
\* the context existed, waits for it.
C7_Witness ==
  \E t1, t2 \in Threads :
    /\ t1 # t2
    /\ tcall[t1].user = tcall[t2].user
    /\ tcall[t1].op = "get_user_context"
    /\ tcall[t2].op = "create_task"
    /\ tpc[t1] = "iu_release"
    /\ tpc[t2] = "iu_acquire"
    /\ octor[tcall[t1].user] = 1
    /\ olock.holder = t1

\* C9: when update_task ends on an existing record, each of status, progress,
\* message, result and error that was passed holds the passed value, each
\* one that was not passed holds the value it had before the call,
\* updated_at is the time of the call, task id, owner and created_at are
\* the same, and every other record and the index are as before the call.
C9_SparseUpdate ==
  [][\A t \in Threads : OwnerUpdateLeave(t) =>
       LET kw == tcall[t].kw
           ref == OwnerLookup(tcall[t].user, tcall[t].id)[1]
           old == opre[t][ref]
           new == oheap'[ref]
       IN
         /\ \A f \in {"status", "progress", "message"} :
              new[f] = IF kw[f] # None THEN kw[f][1] ELSE old[f]
         /\ \A f \in {"result", "error"} :
              new[f] = IF kw[f] # None THEN kw[f] ELSE old[f]
         /\ new.updated_at = now
         /\ new.task_id = old.task_id
         /\ new.user_id = old.user_id
         /\ new.created_at = old.created_at
         /\ Len(oheap') = Len(opre[t])
         /\ \A r \in 1..Len(opre[t]) : r # ref => oheap'[r] = opre[t][r]
         /\ otasks' = otasks]_vars

\* update_task(progress=0, message="reset") has returned on a record that was
\* downloading at progress 10 an hour earlier: progress and message are the
\* passed ones, the status is kept, and another owner's record exists.
C9_Witness ==
  \E t \in Threads :
    /\ tpc[t] = "ret"
    /\ tcall[t].op = "update_task"
    /\ tcall[t].kw = Kwargs(None, Some(0), Some("reset"), None, None)
    /\ tret[t] # None
    /\ LET ref == tret[t][1][2] IN
         /\ opre[t][ref].status = "DOWNLOADING"
         /\ opre[t][ref].progress = 10
         /\ oheap[ref].status = "DOWNLOADING"
         /\ oheap[ref].progress = 0
         /\ oheap[ref].message = "reset"
         /\ oheap[ref].updated_at > opre[t][ref].updated_at
    /\ Len(oheap) = 2

Terminal == {"COMPLETED", "FAILED"}

\* C11: every task that was submitted (its record is never evicted here, and
\* each collaborator call returns or raises in the end) reaches completed or
\* failed and keeps a terminal status for ever.
C11_ReachesTerminal ==
  \A id \in TaskIds :
    (id \in DOMAIN tasks) ~> [](id \in DOMAIN tasks /\ Record(id).status \in Terminal)

\* Both submitted tasks have ended, one completed after all three stages and
\* one failed because its downloader raised.
C11_Witness ==
  \E a, b \in TaskIds :
    /\ wpc[a] = "done" /\ wpc[b] = "done"
    /\ Record(a).status = "COMPLETED" /\ wexc[a] = None
    /\ Record(b).status = "FAILED" /\ wexc[b] = Some(DownloadError)

\* C12: a submission stores its record under an id the store does not hold
\* and for which no worker exists, and starts that id's worker and no other;
\* a stored record changes only while the worker of the id it is stored under
\* holds the lock, so no record is ever written by two workers.
C12_OneWorkerPerTask ==
  [][/\ Len(heap') > Len(heap) =>
          \E id \in TaskIds :
            /\ id \notin DOMAIN tasks
            /\ wpc[id] = "none"
            /\ wpc'[id] = "upd_downloading"
            /\ \A j \in TaskIds \ {id} : wpc'[j] = wpc[j]
            /\ tasks' = (id :> Len(heap')) @@ tasks
            /\ \A r \in 1..Len(heap) : heap'[r] = heap[r]
     /\ \A r \in 1..Len(heap) :
          heap'[r] # heap[r] =>
            \E id \in DOMAIN tasks :
              /\ tasks[id] = r
              /\ lock = Worker(id)
              /\ \A j \in DOMAIN tasks : tasks[j] = r => j = id
     /\ \A id \in TaskIds :
          (wpc'[id] # wpc[id] /\ wpc[id] # "none") => wpc[id] # "done"
    ]_vars

\* Two submissions run at once: the second task's worker is inside
\* update_task while the first task's worker, which has updated its own
\* record, is in a collaborator call.
C12_Witness ==
  \E a, b \in DOMAIN tasks :
    /\ a # b
    /\ tasks[a] # tasks[b]
    /\ touched[a]
    /\ wpc[a] \in CallStages
    /\ lock = Worker(b)
    /\ upos[b] > 1

\* chunk_on_delimiter has returned.
ChunkReturned == kpc = "returned" /\ kin.fn = "chunk_on_delimiter"

\* C13 (as claimed): with a positive max_tokens, every segment
\* chunk_on_delimiter returns, delimiter and markers included, has at most
\* max_tokens tokens.
C13_SegmentWithinBudget ==
  (ChunkReturned /\ kin.max_tokens > 0) =>
    \A i \in 1..Len(kout[1]) : NumTokens(kout[1][i]) <= kin.max_tokens

\* The input pieces of the returned call.
InputPieces == Split(kin.text, kin.delimiter)

\* The indices of the input pieces that have more than max_tokens tokens.
Oversized == {i \in 1..Len(InputPieces) : NumTokens(InputPieces[i]) > kin.max_tokens}

\* A segment with the re-appended delimiter stripped.
Stripped(segment) == SubSeq(segment, 1, Len(segment) - 1)

RECURSIVE Flatten(_)
\* The concatenation of a sequence of sequences.
Flatten(ss) == IF Len(ss) = 0 THEN <<>> ELSE ss[1] \o Flatten(Tail(ss))

\* The pieces got back from the segments, in output order.
PiecesBack ==
  Flatten([i \in 1..Len(kout[1]) |-> Split(Stripped(kout[1][i]), kin.delimiter)])

RECURSIVE Replaced(_, _, _)
\* The input pieces from index i on, the oversized ones left out or, for
\* those in marked, replaced by the marker.
Replaced(pieces, i, marked) ==
  IF i > Len(pieces) THEN <<>>
  ELSE (IF NumTokens(pieces[i]) <= kin.max_tokens THEN <<pieces[i]>>
        ELSE IF i \in marked THEN <<Ellipsis>> ELSE <<>>)
       \o Replaced(pieces, i + 1, marked)

\* C14 (as claimed): the pieces got back from the segments are the input
\* pieces without the oversized ones, in the input order.
C14_RoundTripAsClaimed ==
  ChunkReturned => PiecesBack = Replaced(InputPieces, 1, {})

\* C14 (amended): every segment ends with the delimiter, and the segments
\* with it stripped, joined by the delimiter, are the join of the input
\* pieces in which every oversized piece is left out or replaced by the
\* marker "..."; every other piece is there once, in the input order.
C14_RoundTripWithMarkers ==
  ChunkReturned =>
    /\ \A i \in 1..Len(kout[1]) :
         Len(kout[1][i]) >= 1 /\ kout[1][i][Len(kout[1][i])] = kin.delimiter
    /\ \E marked \in SUBSET Oversized :
         Join([i \in 1..Len(kout[1]) |-> Stripped(kout[1][i])], kin.delimiter)
           = Join(Replaced(InputPieces, 1, marked), kin.delimiter)

\* A call returned two segments for a text with an oversized piece, and the
\* first segment holds the marker that stands for it.
C14_Witness ==
  /\ ChunkReturned
  /\ Oversized # {}
  /\ Len(kout[1]) = 2
  /\ kin.delimiter = "|"
  /\ \E n \in 1..Len(kout[1][1]) - 2 : SubSeq(kout[1][1], n, n + 2) = Ellipsis

\* summarize has built its request or raised.
SummarizeReturned == kpc = "returned" /\ kin.fn = "summarize"

\* C15 (as claimed): for every text, detail level and minimum_chunk_size,
\* summarize does not raise and 1 <= num_chunks <= max_chunks.
C15_NumChunksAsClaimed ==
  SummarizeReturned =>
    /\ kout[1].raised = None
    /\ 1 <= kout[1].num_chunks
    /\ kout[1].num_chunks <= kout[1].max_chunks

\* C15 (amended): for every text, every detail level and every
\* minimum_chunk_size of at least 1, max_chunks is the segment count of the
\* probe packing and is at least 1, 1 <= num_chunks <= max_chunks, and the
\* division does not raise.
C15_NumChunksInRange ==
  (SummarizeReturned /\ kin.minimum_chunk_size >= 1) =>
    /\ kout[1].raised = None
    /\ kout[1].max_chunks
         = Len(ChunkOnDelimiter(kin.text, kin.minimum_chunk_size, kin.delimiter))
    /\ 1 <= kout[1].num_chunks
    /\ kout[1].num_chunks <= kout[1].max_chunks

\* summarize at detail 1/2 on a text whose probe packing has three segments:
\* num_chunks is 2.
C15_Witness ==
  /\ SummarizeReturned
  /\ kin.minimum_chunk_size >= 1
  /\ 2 * kin.detail = DetailSteps
  /\ kout[1].max_chunks = 3
  /\ kout[1].num_chunks = 2

\* C16 (as claimed, for a minimum_chunk_size of at least one token): at
\* detail 0 the request has exactly one labeled chunk, and at detail 1 it has
\* max_chunks labeled chunks.
C16_ChunkCountAtExtremes ==
  (SummarizeReturned /\ kin.minimum_chunk_size >= 1) =>
    /\ kin.detail = 0 => Len(kout[1].labeled) = 1
    /\ kin.detail = DetailSteps => Len(kout[1].labeled) = kout[1].max_chunks

\* The error strings that contain "not found".
MentionsNotFound == {EpisodeNotFound.msg}

\* C17 (as claimed): when the episode name matches no entry of a valid feed,
\* download_episode raises an error whose string contains "not found" (which
\* process_podcast stores in the failed record).
C17_NoMatchNotFound ==
  (kpc = "returned" /\ kin.fn = "download_episode"
     /\ \A i \in 1..Len(kin.feed) :
          kin.feed[i].title # None => ~TitleMatches(kin.episode_name, kin.feed[i].title[1])) =>
    /\ kout[1].raised # None
    /\ Str(kout[1].raised[1]) \in MentionsNotFound

\* The submissions the claim lists: no body, no source_url or platform, an
\* unknown platform, a URL that is not valid for the platform, for a feed a
\* missing episode name or one of fewer than 3 characters between its
\* surrounding blanks, a detail level that is no number or lies outside [0, 1].
FailsValidation(body) ==
  \/ body = None
  \/ LET data == body[1] IN
       \/ data.source_url = None
       \/ data.platform \in {None, Some("")}
       \/ data.platform[1] \notin {"YouTube", "rss"}
       \/ data.platform[1] = "YouTube" /\ data.source_url # Some("youtube-url")
       \/ data.platform[1] = "rss" /\ data.source_url # Some("feed-url")
       \/ /\ data.platform[1] = "rss"
          /\ \/ data.episode_name = None
             \/ Len(Strip(data.episode_name[1])) < MinEpisodeName
       \/ /\ data.detail_level # None
          /\ \/ ~data.detail_level[1].numeric
             \/ data.detail_level[1].k < 0
             \/ data.detail_level[1].k > DetailSteps

\* C18: a submission that fails validation is answered 400 with the errors,
\* and the store and the workers are as before: no record, no worker.
C18_RejectedLeavesStore ==
  [][(kpc = "idle" /\ kpc' = "returned" /\ kin'.fn = "summarize_endpoint"
        /\ FailsValidation(kin'.body)) =>
       /\ kout'[1].code = 400
       /\ kout'[1].errors # <<>>
       /\ kout'[1].task_id = None
       /\ tasks' = tasks
       /\ heap' = heap
       /\ wpc' = wpc
       /\ lock' = lock
    ]_vars

\* A feed submission whose episode name is two letters between blanks was
\* answered 400 while the store holds an earlier task.
C18_Witness ==
  /\ kpc = "returned"
  /\ kin.fn = "summarize_endpoint"
  /\ kin.body # None
  /\ kin.body[1].platform = Some("rss")
  /\ kin.body[1].source_url = Some("feed-url")
  /\ kin.body[1].episode_name = Some(<<" ", "a", "a", " ">>)
  /\ kin.body[1].detail_level = Some(Number(DetailSteps))
  /\ kout[1].code = 400
  /\ Len(heap) = 1
  /\ wpc[1] = "upd_downloading"

\* C19: the result endpoint answers 404, 500, 202 or 200, a 500 carries an
\* error message, a 202 the status, and every 200 carries the result the
\* worker stored, never an unset one.
C19_ResultAnswer ==
  (ppc = "respond" /\ pout.task = None) =>
    /\ pout.code \in {404, 500, 202, 200}
    /\ pout.code = 500 => pout.error # None
    /\ pout.code = 202 => pout.status # None
    /\ pout.code = 200 => (pout.result # None /\ pout.result[1] # None)

\* The client thread that takes the step.
Acting(t) == tpc'[t] # tpc[t] \/ tupos'[t] # tupos[t] \/ tpos'[t] # tpos[t]

\* The owner under which the acting thread's call runs.
ActingUser(t) == IF tcall[t].op = "none" THEN tcall'[t].user ELSE tcall[t].user

\* The step leaves the owner's task dict, records and context as they were.
OwnerUntouched(a) ==
  /\ (a \in DOMAIN otasks) = (a \in DOMAIN otasks')
  /\ a \in DOMAIN otasks =>
       /\ otasks'[a] = otasks[a]
       /\ \A id \in DOMAIN otasks[a] : oheap'[otasks[a][id]] = oheap[otasks[a][id]]
  /\ (a \in DOMAIN octx) = (a \in DOMAIN octx')
  /\ a \in DOMAIN octx => octx'[a] = octx[a]

\* What the thread's call returns belongs to the owner of the call.
ReturnsOwn(t) ==
  tret'[t] # None =>
    LET v == tret'[t][1]
        u == tcall'[t].user
    IN /\ v[1] = "task" => oheap'[v[2]].user_id = u
       /\ v[1] = "dict" => v[2].user_id = u
       /\ v[1] = "context" =>
            /\ v = octx'[u]
            /\ \A b \in DOMAIN octx' \ {u} : octx'[b] # v

\* C20: a step of create_task, update_task, get_task_dict or
\* get_user_context under one owner leaves every other owner's records and
\* context unchanged and returns only that owner's record or context, also
\* when both owners use the same task id; two owners never hold the same
\* UserContext instance.
C20_OwnerIsolation ==
  [][/\ \A t \in Threads :
          Acting(t) => /\ \A a \in Users \ {ActingUser(t)} : OwnerUntouched(a)
                       /\ ReturnsOwn(t)
     /\ \A a \in DOMAIN octx', b \in DOMAIN octx' : a # b => octx'[a] # octx'[b]
    ]_vars

\* Both owners hold a record with id 1; u2's was updated and get_task_dict
\* under u2 returned it as downloading while u1's is still pending.
C20_Witness ==
  \E t \in Threads :
    /\ tpc[t] = "ret"
    /\ tcall[t] = Call("get_task_dict", "u2", 1, NoKwargs)
    /\ tret[t] # None
    /\ tret[t][1][2].status = "downloading"
    /\ tret[t][1][2].user_id = "u2"
    /\ "u1" \in DOMAIN otasks
    /\ 1 \in DOMAIN otasks["u1"]
    /\ oheap[otasks["u1"][1]].status = "PENDING"
    /\ oheap[otasks["u1"][1]].user_id = "u1"

\* C21 (as claimed, the pending case): while its record is pending, a
\* started worker can raise and go to the except clause, so that the status
\* can go directly from pending to failed.
C21_PendingCanFail ==
  \A id \in DOMAIN tasks :
    (Record(id).status = "PENDING" /\ wpc[id] \notin {"none", "done"}) =>
      ENABLED StageRaises(id)

\* C21: a record's status changes to failed only directly from downloading,
\* transcribing or summarizing, never directly from pending: the update to
\* downloading comes before every call that can raise.
C21_FailedFromStarted ==
  [][\A id \in TaskIds :
       (id \in DOMAIN tasks /\ id \in DOMAIN tasks'
          /\ heap'[tasks'[id]].status = "FAILED" /\ Record(id).status # "FAILED") =>
         Record(id).status \in {"DOWNLOADING", "TRANSCRIBING", "SUMMARIZING"}
    ]_vars

\* Task 1 failed in its download, and the except clause of task 2, whose
\* summarizer raised, has just set failed on a record that still shows the
\* progress of summarizing.
C21_Witness ==
  /\ DOMAIN tasks = {1, 2}
  /\ Record(1).status = "FAILED"
  /\ Record(1).error = Some(Str(DownloadError))
  /\ lock = Worker(2)
  /\ wexc[2] = Some(SummarizeError)
  /\ Record(2).status = "FAILED"
  /\ Record(2).progress = 70

\* The except clause of a task whose transcriber raised has just set failed
\* on a record that still shows the progress of transcribing.
C21_FromTranscribing ==
  \E id \in DOMAIN tasks :
    /\ lock = Worker(id)
    /\ wexc[id] = Some(TranscribeError)
    /\ Record(id).status = "FAILED"
    /\ Record(id).progress = 30

\* The progress the claim gives for each status.
ProgressOf(status) ==
  CASE status = "PENDING" -> 0
    [] status = "DOWNLOADING" -> 10
    [] status = "TRANSCRIBING" -> 30
    [] status = "SUMMARIZING" -> 70
    [] status = "COMPLETED" -> 100
    [] status = "FAILED" -> 0

ResultKeys == {"title", "summary", "thumbnail", "channel", "duration_string", "release_date"}

\* The record has the progress of its status and, when completed, a result
\* with the six keys.
ProgressByStatus(r) ==
  /\ r.progress = ProgressOf(r.status)
  /\ r.status = "COMPLETED" => (r.result # None /\ DOMAIN r.result[1] = ResultKeys)

\* C22 (as claimed): in every state of the store each record has the
\* progress of its status (pending 0, downloading 10, transcribing 30,
\* summarizing 70, completed 100, failed 0), and a completed record's result
\* has the keys title, summary, thumbnail, channel, duration_string and
\* release_date.
C22_ProgressByStatus == \A id \in DOMAIN tasks : ProgressByStatus(Record(id))

\* The same for the records no update_task is writing.
C22_ProgressByStatusAtRest ==
  \A id \in DOMAIN tasks : lock # Worker(id) => ProgressByStatus(Record(id))

\* The positions of process_podcast in the order of its text.
StageOrder ==
  <<"none", "upd_downloading", "download", "upd_transcribing", "transcribe",
    "upd_summarizing", "summarize", "upd_completed", "upd_failed", "done">>

StageRank(pos) == CHOOSE i \in 1..Len(StageOrder) : StageOrder[i] = pos

\* C23: a worker only moves forward through download, transcribe and
\* summarize, so each collaborator is invoked at most once per task; a
\* collaborator is invoked only when the step before it returned and
\* nothing has raised, and once a stage raised the worker goes to the
\* except clause and invokes no further stage.
C23_SequentialNoRetry ==
  [][\A id \in TaskIds :
       /\ wexc[id] # None => wexc'[id] = wexc[id]
       /\ wpc'[id] # wpc[id] =>
            /\ StageRank(wpc'[id]) > StageRank(wpc[id])
            /\ wpc'[id] \in CallStages =>
                 /\ wexc'[id] = None
                 /\ StageRank(wpc'[id]) = StageRank(wpc[id]) + 1
            /\ (wpc[id] \in CallStages /\ wexc'[id] = None) =>
                 StageRank(wpc'[id]) = StageRank(wpc[id]) + 1
            /\ (wpc[id] \in CallStages /\ wexc'[id] # None) => wpc'[id] = "upd_failed"
    ]_vars

\* Task 1 went through its three stages and completed; the transcriber of
\* task 2 raised, and its worker ended without invoking the summarizer.
C23_Witness ==
  /\ DOMAIN tasks = {1, 2}
  /\ wpc[1] = "done"
  /\ wexc[1] = None
  /\ Record(1).status = "COMPLETED"
  /\ wpc[2] = "done"
  /\ wexc[2] = Some(TranscribeError)
  /\ Record(2).status = "FAILED"

\* C24: every turn of the polling loop sends one status request and either
\* ends the call or leaves one request fewer to go, and no job gets more
\* than max_attempts (120) status requests, so the loop ends; a call that
\* ends after the last allowed request found the job unfinished raises
\* "Transcription job timed out".
C24_BoundedPolling ==
  [][/\ npolls' <= MaxAttempts
     /\ spc = "loop" =>
          \/ spc' = "returned"
          \/ /\ spc' = "loop"
             /\ npolls' = npolls + 1
             /\ MaxAttempts - attempt' < MaxAttempts - attempt
             /\ attempt' <= MaxAttempts
     /\ (spc = "loop" /\ spc' = "returned" /\ npolls' = MaxAttempts /\ slast' = "waiting") =>
          sout' = Some(Raises("Transcription job timed out"))
    ]_vars

\* The job was still running at each of the 120 status requests, and the
\* call raised the timeout.
C24_Witness ==
  /\ spc = "returned"
  /\ npolls = MaxAttempts
  /\ slast = "waiting"
  /\ sout = Some(Raises("Transcription job timed out"))

\* C25 (as claimed): a transcribe call that found a transcript for its
\* content id returns a text without uploading audio or asking the service;
\* and a call that starts after a transcribe for the same id has succeeded
\* returns the text that one returned, again without upload or service call.
C25_Idempotent ==
  \A c \in Callers :
    xpc[c] = "returned" =>
      /\ xhad[c] => (xout[c][1].kind = "return" /\ ~xcontact[c])
      /\ xprior[c] # None => (xout[c] = Some(Returns(xprior[c][1])) /\ ~xcontact[c])

\* The integers nearest to 1 + detail * (max_chunks - 1) for the detail
\* level k / DetailSteps (two of them when the value lies half way).
Nearest(k, max_chunks) ==
  LET v == DetailSteps + k * (max_chunks - 1) IN
    {n \in 0..(max_chunks + 1) :
       /\ 2 * (n * DetailSteps - v) <= DetailSteps
       /\ 2 * (v - n * DetailSteps) <= DetailSteps}

\* C26 (as claimed): when max_chunks is at least 1, num_chunks is
\* 1 + detail * (max_chunks - 1) rounded to the nearest integer, and at
\* least 1.
C26_NumChunksRounded ==
  (SummarizeReturned /\ kout[1].max_chunks >= 1) =>
    /\ kout[1].num_chunks >= 1
    /\ kout[1].num_chunks \in Nearest(kin.detail, kout[1].max_chunks)

\* C26 (amended): when max_chunks is at least 1, num_chunks is
\* 1 + detail * (max_chunks - 1) rounded down to an integer, and at least 1.
C26_NumChunksTruncated ==
  (SummarizeReturned /\ kout[1].max_chunks >= 1) =>
    /\ kout[1].num_chunks >= 1
    /\ kout[1].num_chunks * DetailSteps <= DetailSteps + kin.detail * (kout[1].max_chunks - 1)
    /\ (kout[1].num_chunks + 1) * DetailSteps > DetailSteps + kin.detail * (kout[1].max_chunks - 1)

\* summarize with a minimum_chunk_size of at least one token where
\* 1 + detail * (max_chunks - 1) lies above n + 1/2 and num_chunks is n.
C26_Witness ==
  /\ SummarizeReturned
  /\ kin.minimum_chunk_size >= 1
  /\ kout[1].max_chunks >= 2
  /\ LET v == DetailSteps + kin.detail * (kout[1].max_chunks - 1) IN
       /\ 2 * (v % DetailSteps) > DetailSteps
       /\ kout[1].num_chunks = v \div DetailSteps

\* The tasks whose process_podcast thread has started and not yet ended.
RunningWorkers == {id \in TaskIds : wpc[id] \notin {"none", "done"}}

\* C27 (as claimed): the workers running at the same time stay below a
\* bound that does not grow with the submissions accepted; here, with
\* MaxTasks submissions accepted, never all MaxTasks workers run at once.
C27_BoundedWorkers == Cardinality(RunningWorkers) < MaxTasks

\* A status request and a result request for the id can take the lock and
\* get their record (or find none).
CanRead(id) ==
  /\ ENABLED PollStatus(id) \/ ENABLED PollNotFound(id)
  /\ ENABLED PollResult(id) \/ ENABLED PollNotFound(id)

\* C28: no worker holds the store lock while its download_episode,
\* transcribe or summarize call is in progress; when every running worker is
\* inside such a call the lock is free and a read of any id can proceed; and
\* the submission ends with the record pending and the new worker before its
\* first step, without any stage having run.
C28_ReadsNeverWaitForStages ==
  [][/\ \A id \in TaskIds : wpc'[id] \in CallStages => lock' # Worker(id)
     /\ (\A id \in TaskIds : wpc'[id] \in CallStages \cup {"none", "done"}) =>
          /\ lock' = Free
          /\ ppc' = "idle" => \A id \in TaskIds : CanRead(id)'
     /\ \A id \in TaskIds :
          (wpc[id] = "none" /\ wpc'[id] # "none") =>
            /\ wpc'[id] = "upd_downloading"
            /\ heap'[tasks'[id]].status = "PENDING"
            /\ lock' = Free
    ]_vars

\* The status of task 1 was read as transcribing and answered while the
\* worker of task 1 sits in transcribe and that of task 2 in download.
C28_Witness ==
  /\ wpc[1] = "transcribe"
  /\ wpc[2] = "download"
  /\ ppc = "respond"
  /\ pid = 1
  /\ pout.code = 200
  /\ pout.task # None
  /\ pout.task[1].status = "transcribing"
  /\ pout.task[1].progress = 30

\* C29 (as claimed): a download_episode call that returns gives the audio
\* path and the metadata video_id of the video its own source URL names,
\* whatever other calls run on the same YTDownloader.
C29_OwnVideo ==
  \A c \in Callers :
    (ypc[c] = "returned" /\ yout[c][1].kind = "return") =>
      /\ yout[c][1].video_id = ExtractVideoId(yurl[c][1])
      /\ yout[c][1].audio = OutputTemplate(ExtractVideoId(yurl[c][1]), ".mp3")

\* A thread holds the store lock only inside TaskInfo.update: it is past
\* its one acquisition, and every step it has left is an assignment or the
\* release.
HolderInsideUpdate ==
  lock # Free => \E id \in TaskIds : lock = Worker(id) /\ upos[id] \in 1..6

\* No thread inside a store operation is stuck: the holder of the lock can
\* take its next step, a thread inside an operation and outside the lock can
\* take its next step, and a thread at an acquisition can take it as soon as
\* the lock is free.
NoThreadStuck ==
  /\ \A id \in TaskIds :
       lock = Worker(id) => ENABLED (UpdateTaskAssign(id) \/ UpdateTaskLeave(id))
  /\ ppc \in {"asdict", "value"} => ENABLED ClientStep
  /\ cpc = "done" => ENABLED CleanupReturn
  /\ lock = Free =>
       /\ \A id \in DOMAIN tasks : wpc[id] \in UpdateStages => ENABLED UpdateTaskEnter(id)
       /\ cpc = "sampled" => ENABLED CleanupRun
       /\ ppc = "idle" => \A id \in TaskIds : ENABLED (PollStatus(id) \/ PollNotFound(id))

\* A step that leaves the lock with its holder takes the holder no further
\* from the release: the lock is held for at most six steps of its holder.
HolderAdvances ==
  \A id \in TaskIds :
    (lock = Worker(id) /\ lock' = Worker(id)) =>
      /\ upos'[id] >= upos[id]
      /\ (upos'[id] = upos[id] => UNCHANGED <<heap, wpc[id]>>)

\* C30: the store operations never deadlock. Under every interleaving of
\* create_task, get_task, get_task_dict, update_task and cleanup_old_tasks,
\* whoever holds the lock never asks for it again, is never stuck and
\* releases it within a bounded number of its own steps, and no operation
\* waits for anything but a lock that is on its way to being released.
C30_NoDeadlock ==
  /\ [](HolderInsideUpdate /\ NoThreadStuck)
  /\ [][HolderAdvances]_vars

\* C30 witness: worker 1 holds the lock inside update_task while worker 2
\* waits to enter update_task, cleanup_old_tasks waits for the lock, and the
\* client is inside get_task_dict.
C30_Witness ==
  /\ lock = Worker(1)
  /\ wpc[2] \in UpdateStages
  /\ upos[2] = 0
  /\ cpc = "sampled"
  /\ ppc = "asdict"

====
